---- MODULE Spec2Model ----
(***************************************************************************)
(* Verification model of the TRADE decision-support system.                *)
(*                                                                         *)
(* Each component is modelled with its own specification:                  *)
(*   SpecBT  - the weekly portfolio backtest (scripts/backtest_portfolio)  *)
(*   SpecMH  - one position of the backtest held over the weeks            *)
(*   SpecRL  - the token bucket and the ingestion fetch path               *)
(*   SpecUP  - the ingestion cycle with its retry wrapper                  *)
(*   SpecDB  - the market store's transactional upsert                     *)
(*   SpecDD  - the drawdown protection state machine                       *)
(*   SpecSZ  - the position sizers                                         *)
(*   SpecSD  - the sector diversity filter of the weekly plan              *)
(*                                                                         *)
(* Money and prices are Python floats in the source.  The model keeps them *)
(* as integers in cents; a product with a percentage is truncated to the   *)
(* cent.                                                                   *)
(***************************************************************************)
EXTENDS Integers, Sequences, FiniteSets, TLC

VARIABLES
    \* ---- backtest (run_portfolio_backtest locals) ----
    current_date,          \* day index; day 0 is a Monday
    week_count,
    effective_max_slots,
    pending_signals,       \* sequence of signals from Monday
    current_positions,     \* sequence of open positions
    current_capital,       \* cash, EUR cents
    trades,                \* sequence of trade outcomes
    bars,                  \* market store: today's bar per symbol
    next_bars,             \* market store: tomorrow's bar per symbol
    last_close,            \* market store: most recent close at or before today
    bt_cfg,                \* risk.bear_market_* configuration
    unusual_bars,          \* how many bars of the store so far differ from FlatBar
    bt_pc,                 \* position inside the day's handler
    equity_curve,          \* len(equity_curve): the equity snapshots taken
    week_regime,           \* observer: what the latest Monday saw (ADX, bear market)
    friday_close,          \* observer: per symbol, the latest close as of the last Friday,
                           \* kept until the Monday that follows
    opened,                \* observer: (symbol, entry_date) of every position opened
    \* ---- token bucket and fetch tasks ----
    rl_tokens,             \* TokenBucket.tokens, in units of 1/TokenUnit token
    rl_since_refill,       \* time.time() - TokenBucket.last_refill, in ticks
    rl_lock,               \* holder of TokenBucket._lock, or "free"
    rl_waiters,            \* tasks queued on TokenBucket._lock, first come first
    rl_task,               \* per task: where it is in the fetch path
    rl_credit,             \* observer: level of an ideal bucket fed by the requests sent
    \* ---- market store ----
    market_data,           \* the market_data table: a set of rows
    db_txn,                \* the table as of BEGIN TRANSACTION, while one is open
    db_pc,                 \* position inside insert_data
    db_df,                 \* the frame passed to insert_data
    db_raised,             \* whether the last insert_data raised
    db_failed_at,          \* the statement at which it raised
    db_latest,             \* observer: per key, the value of the last insert that returned
    db_before,             \* observer: the table when insert_data was called
    \* ---- drawdown protection ----
    dd_consecutive_losses,
    dd_consecutive_wins,
    dd_monthly_start_equity,
    dd_months_since_start, \* (now.month - _monthly_start_date.month) mod 12
    dd_current_equity,
    dd_saved,              \* the drawdown_* settings in the user store
    dd_recent,             \* observer: the latest trade results, oldest first
    dd_last_op,            \* observer: the method called last
    \* ---- position sizing ----
    sz_entry_price,        \* entry price of the signal, USD cents
    sz_stop_loss,          \* its stop, USD cents
    sz_total_equity,       \* total equity / total capital, EUR cents
    sz_cash,               \* cash (backtest) or available capital (plan), EUR cents
    sz_risk,               \* risk per trade taken from the settings
    sz_quantity,           \* the quantity the sizer returned
    sz_path,               \* the sizer that ran last
    \* ---- sector diversity filter ----
    sd_open,               \* get_active_positions(): the open trades
    sd_signals,            \* the ranked signals passed to the filter
    sd_accepted,           \* the signals the filter returned
    sd_pc,                 \* "idle", "input" before the filter ran, "done" after
    \* ---- one position held over the weeks ----
    mh_date,               \* day index of the run; day 0 is the Monday of week 1
    mh_week_count,         \* week_count
    mh_position,           \* the open position, or NoPosition
    mh_outcome,            \* its trade outcome, or NoOutcome
    mh_bar,                \* the position's bar of today
    mh_next_bar,           \* its bar of tomorrow
    \* ---- ingestion cycle (DataUpdater) ----
    up_pc,                 \* update_all: "idle", "batch" while a batch runs, "done"
    up_plan,               \* data_provider.plan
    up_next,               \* index of the first symbol of the running batch
    up_task,               \* per symbol: where its update_symbol call is
    up_success_count,      \* success_count
    \* ---- market store connections ----
    st_db,                 \* per component: the MarketDatabase object its self.db holds
    st_created,            \* how many MarketDatabase objects were constructed
    st_held,               \* the store files another process holds open
    st_construct,          \* the latest MarketDatabase(...) call
    st_mon,                \* the running PriceMonitor._get_market_data call
    \* ---- live price monitor ----
    mon_trade,             \* the trading_journal row of the position: status, entry, stop, target
    mon_alerts,            \* telegram_alert_sent: the level_types recorded for the symbol
    mon_close,             \* close of the latest daily bar in the store, NoPrice when none
    mon_highest,           \* highest close since the entry date, NoPrice when none
    mon_sent,              \* observer: calls of send_price_alert per key since the keys were cleared
    mon_observed,          \* observer: cycles that found the level reached, per key, since then
    \* ---- exchange rate ----
    fx_memory,             \* _rate_cache of the process: rate and age in hours, NoRate when empty
    fx_stored,             \* cached_exchange_rate and the age of its timestamp in the user store
    fx_manual,             \* the setting exchange_rate of the user store, NoRate when absent
    fx_call                \* observer: the last call of get_exchange_rate, what it saw and returned

bt_vars == << current_date, week_count, effective_max_slots, pending_signals,
              current_positions, current_capital, trades, bars, next_bars,
              last_close, bt_cfg, unusual_bars, bt_pc, equity_curve,
              week_regime, friday_close, opened >>

rl_vars == << rl_tokens, rl_since_refill, rl_lock, rl_waiters, rl_task, rl_credit >>

db_vars == << market_data, db_txn, db_pc, db_df, db_raised, db_failed_at, db_latest,
              db_before >>

dd_vars == << dd_consecutive_losses, dd_consecutive_wins, dd_monthly_start_equity,
              dd_months_since_start, dd_current_equity, dd_saved, dd_recent, dd_last_op >>

sz_vars == << sz_entry_price, sz_stop_loss, sz_total_equity, sz_cash, sz_risk, sz_quantity, sz_path >>

sd_vars == << sd_open, sd_signals, sd_accepted, sd_pc >>

mh_vars == << mh_date, mh_week_count, mh_position, mh_outcome, mh_bar, mh_next_bar >>

up_vars == << up_pc, up_plan, up_next, up_task, up_success_count >>

st_vars == << st_db, st_created, st_held, st_construct, st_mon >>

mon_vars == << mon_trade, mon_alerts, mon_close, mon_highest, mon_sent, mon_observed >>

fx_vars == << fx_memory, fx_stored, fx_manual, fx_call >>

vars == << bt_vars, rl_vars, db_vars, dd_vars, sz_vars, sd_vars, mh_vars, up_vars, st_vars, mon_vars, fx_vars >>

(***************************************************************************)
(* Generic helpers                                                         *)
(***************************************************************************)
Max(a, b) == IF a >= b THEN a ELSE b

Min(a, b) == IF a <= b THEN a ELSE b

Range(s) == { s[i] : i \in 1..Len(s) }

\* Python's seq[:n]: a negative n counts from the end.
PySlicePrefix(s, n) ==
    IF n >= 0 THEN SubSeq(s, 1, Min(n, Len(s)))
    ELSE SubSeq(s, 1, Max(0, Len(s) + n))

(***************************************************************************)
(* Backtest: parameters and bounds                                         *)
(***************************************************************************)
EndDate == 8               \* end_date argument: the run covers days 0..EndDate
MaxSlotsArg == 2           \* the max_slots argument of the run
MaxSignals == 2            \* longest Monday signal list
MaxUnusualBars == 2        \* bars of the store that differ from FlatBar
InitialCapital == 1000000  \* initial_capital argument: EUR 10 000.00

MAX_HOLD_WEEKS == 8
ENTRY_SLIPPAGE_PERMILLE == 2       \* 0.2 %
EXIT_SLIPPAGE_PERMILLE == 1        \* 0.1 %
TRAILING_TRIGGER_PCT == 6
TRAILING_DISTANCE_PERMILLE == 15   \* 1.5 %
TRAILING_MIN_LOCK_PERMILLE == 35   \* 3.5 %
RISK_PERMILLE == 15                \* RISK_PCT = 0.015
POSITION_CAP_PCT == 33
EUR_USD_RATE_PCT == 92             \* EUR_USD_RATE fallback 0.92
COMMISSION == 100                  \* EUR 1.00
ADX_SKIP == 15

Symbols == {"A", "B"}

NoBar == [open |-> 0, high |-> 0, low |-> 0, close |-> 0]

\* The store holds no bar for the symbol on that day and every query for the
\* symbol issued on that day raises (conn.execute in MarketDatabase.get_data).
ErrBar == [open |-> -1, high |-> -1, low |-> -1, close |-> -1]

\* The daily bars the store may hold for a symbol (USD cents).
FlatBar == [open |-> 10000, high |-> 10100, low |-> 9900,  close |-> 10000]

BarChoices(symbol) ==
    IF symbol = "A"
    THEN { NoBar, ErrBar, FlatBar,
           [open |-> 10900, high |-> 11000, low |-> 10900, close |-> 11000],
           [open |-> 10900, high |-> 10950, low |-> 10900, close |-> 10950] }
    ELSE { FlatBar }

StopChoices == {9500, 9950}

AdxChoices == {10, 20}

weekday(d) == d % 7

IsTradingDay(d) == weekday(d) < 5

(***************************************************************************)
(* Market store as the backtest reads it                                   *)
(***************************************************************************)
\* MarketDatabase.get_data_for_date: rows with start <= timestamp <= start + 1 day,
\* ordered by timestamp.  Daily bars are stamped at midnight, so the window
\* holds the bar of the day and the bar of the following day.
has_row(bar) == bar # NoBar /\ bar # ErrBar

get_data_for_date(symbol) ==
    (IF has_row(bars[symbol]) THEN << bars[symbol] >> ELSE << >>)
    \o (IF has_row(next_bars[symbol]) THEN << next_bars[symbol] >> ELSE << >>)

\* A query for the symbol issued today raises instead of returning a frame.
read_fails(symbol) == bars[symbol] = ErrBar

\* MarketDatabase.get_data(symbol, end_date = d).iloc[-1]['close'], 0 when empty
last_close_until(symbol) == last_close[symbol]

(***************************************************************************)
(* Backtest: pure functions                                                *)
(***************************************************************************)
NoOutcome == [symbol |-> "none"]

create_outcome(position, exit_date, exit_price, exit_reason) ==
    LET actual_exit_price == (exit_price * (1000 - EXIT_SLIPPAGE_PERMILLE)) \div 1000
        pnl_usd == (actual_exit_price - position.entry_price) * position.quantity
        pnl_eur == ((pnl_usd * EUR_USD_RATE_PCT) \div 100) - COMMISSION
    IN  [symbol |-> position.symbol,
         entry_date |-> position.entry_date,
         exit_date |-> exit_date,
         exit_price |-> actual_exit_price,
         exit_reason |-> exit_reason,
         pnl_eur |-> pnl_eur]

\* The running high after today's bar.
update_highest(position, row) == Max(position.highest_price, row.high)

\* Mutant of trailing_update: the stop is trailed below today's high and assigned
\* whenever the trigger is met, without the "only if higher" test.
trailing_update_no_ratchet(position, row) ==
    LET profit_ok == (position.highest_price - position.entry_price) * 100
                        >= TRAILING_TRIGGER_PCT * position.entry_price
        trail == (row.high * (1000 - TRAILING_DISTANCE_PERMILLE)) \div 1000
        min_lock == (position.entry_price * (1000 + TRAILING_MIN_LOCK_PERMILLE)) \div 1000
    IN  IF profit_ok
        THEN [position EXCEPT !.stop_loss = Max(trail, min_lock), !.trailing_active = TRUE]
        ELSE position

\* The trailing-stop block: the stop and the trailing flag after today's bar.
\* `position` already carries the updated highest_price.
trailing_update(position, row) ==
    LET profit_ok == (position.highest_price - position.entry_price) * 100
                        >= TRAILING_TRIGGER_PCT * position.entry_price
        trail == (position.highest_price * (1000 - TRAILING_DISTANCE_PERMILLE)) \div 1000
        min_lock == (position.entry_price * (1000 + TRAILING_MIN_LOCK_PERMILLE)) \div 1000
        trailing_stop == Max(trail, min_lock)
    IN  IF profit_ok /\ trailing_stop > position.stop_loss
        THEN [position EXCEPT !.stop_loss = trailing_stop, !.trailing_active = TRUE]
        ELSE position

\* The body of check_intraweek_stop once the frame df has been read:
\* [pos |-> the position as mutated, outcome |-> outcome or NoOutcome,
\*  raised |-> whether an exception leaves the function]
intraweek_stop_on(df, position, date) ==
    IF df = << >> THEN [pos |-> position, outcome |-> NoOutcome, raised |-> FALSE]
    ELSE
      LET row == df[1]
          p1 == [position EXCEPT !.highest_price = update_highest(position, row)]
          p2 == trailing_update(p1, row)
      IN  IF row.low <= p2.stop_loss
          THEN [pos |-> p2,
                outcome |-> create_outcome(p2, date, p2.stop_loss,
                              IF p2.trailing_active THEN "trailing_stop" ELSE "stop_loss"),
                raised |-> FALSE]
          ELSE [pos |-> p2, outcome |-> NoOutcome, raised |-> FALSE]

\* Mutant of check_intraweek_stop: no try/except around the body, so a failed
\* read leaves the function as an exception.
check_intraweek_stop_unguarded(position, date) ==
    IF read_fails(position.symbol)
    THEN [pos |-> position, outcome |-> NoOutcome, raised |-> TRUE]
    ELSE intraweek_stop_on(get_data_for_date(position.symbol), position, date)

\* check_intraweek_stop: "except Exception: return None" around the whole body.
check_intraweek_stop(position, date) ==
    IF read_fails(position.symbol)
    THEN [pos |-> position, outcome |-> NoOutcome, raised |-> FALSE]
    ELSE intraweek_stop_on(get_data_for_date(position.symbol), position, date)

\* The body of check_friday_exit once the frame df has been read.
friday_exit_on(df, position, date, current_week) ==
    IF df = << >> THEN [pos |-> position, outcome |-> NoOutcome, raised |-> FALSE]
    ELSE
      LET row == df[1]
          p1 == [position EXCEPT !.highest_price = update_highest(position, row)]
          p2 == trailing_update(p1, row)
          weeks_held == current_week - p2.entry_week
      IN  IF row.low <= p2.stop_loss
          THEN [pos |-> p2,
                outcome |-> create_outcome(p2, date, p2.stop_loss,
                              IF p2.trailing_active THEN "trailing_stop" ELSE "stop_loss"),
                raised |-> FALSE]
          ELSE IF weeks_held >= MAX_HOLD_WEEKS
          THEN [pos |-> p2, outcome |-> create_outcome(p2, date, row.close, "max_hold"),
                raised |-> FALSE]
          ELSE [pos |-> p2, outcome |-> NoOutcome, raised |-> FALSE]

\* check_friday_exit: "except Exception: return None" around the whole body.
check_friday_exit(position, date, current_week) ==
    IF read_fails(position.symbol)
    THEN [pos |-> position, outcome |-> NoOutcome, raised |-> FALSE]
    ELSE friday_exit_on(get_data_for_date(position.symbol), position, date, current_week)

RECURSIVE calculate_positions_mtm(_)
calculate_positions_mtm(positions) ==
    IF positions = << >> THEN 0
    ELSE LET pos == Head(positions)
             df == get_data_for_date(pos.symbol)
             value == IF ~read_fails(pos.symbol) /\ df # << >>
                      THEN (df[1].close * pos.quantity * EUR_USD_RATE_PCT) \div 100
                      ELSE pos.capital_allocated
         IN  value + calculate_positions_mtm(Tail(positions))

force_close_position(position, exit_date) ==
    LET df == get_data_for_date(position.symbol)
        exit_price == IF ~read_fails(position.symbol) /\ df # << >>
                      THEN df[1].close ELSE position.entry_price
    IN  create_outcome(position, exit_date, exit_price, "forced_close")

\* The loop "for pos in list(current_positions): outcome = check(pos) ..." shared by
\* every weekday: st = [positions, capital, trades, raised].  An exception out
\* of a check ends the loop with the positions not yet checked left as they are.
RECURSIVE stop_loop(_, _, _)
stop_loop(todo, st, friday) ==
    IF todo = << >> THEN st
    ELSE LET pos == Head(todo)
             r == IF friday THEN check_friday_exit(pos, current_date, week_count)
                  ELSE check_intraweek_stop(pos, current_date)
         IN  IF r.raised
             THEN [st EXCEPT !.positions = st.positions \o todo, !.raised = TRUE]
             ELSE IF r.outcome # NoOutcome
             THEN stop_loop(Tail(todo),
                    [st EXCEPT !.capital = st.capital + pos.capital_allocated
                                             + r.outcome.pnl_eur,
                               !.trades = Append(st.trades, r.outcome)], friday)
             ELSE stop_loop(Tail(todo),
                    [st EXCEPT !.positions = Append(st.positions, r.pos)], friday)

run_stop_loop(friday) ==
    stop_loop(current_positions,
              [positions |-> << >>, capital |-> current_capital, trades |-> trades,
               raised |-> FALSE],
              friday)

\* "if weekday < 5: ... equity_curve.append(...)" at the end of the day's try
\* block; the block's "except Exception" skips it when the day raised.
equity_snapshot(raised) == IF raised THEN equity_curve ELSE equity_curve + 1

\* Mutant of available_slots: the difference without the max(0, ...) clamp.
available_slots_unclamped(n_open) == effective_max_slots - n_open

\* available_slots = max(0, effective_max_slots - len(current_positions))
available_slots(n_open) == Max(0, effective_max_slots - n_open)

\* quantity = max(1, int(dynamic_risk_amount / (risk_per_share * EUR_USD_RATE)))
risk_quantity(entry_price, stop_loss, total_equity) ==
    Max(1, (((total_equity * RISK_PERMILLE) \div 1000) * 100)
              \div ((entry_price - stop_loss) * EUR_USD_RATE_PCT))

\* The 33 % rule of the entry loop: a quantity above the cap is replaced by
\* max(1, int(max_position_value_eur / (entry_price * EUR_USD_RATE))).
capped_quantity(entry_price, quantity, total_equity) ==
    IF entry_price * quantity * EUR_USD_RATE_PCT > total_equity * POSITION_CAP_PCT
    THEN Max(1, (total_equity * POSITION_CAP_PCT) \div (entry_price * EUR_USD_RATE_PCT))
    ELSE quantity

\* capital_needed_eur = entry_price * quantity * EUR_USD_RATE + 1.0
capital_needed(entry_price, quantity) ==
    ((entry_price * quantity * EUR_USD_RATE_PCT) \div 100) + COMMISSION

\* One iteration of the Tuesday entry loop for signal sig: st = [positions, capital].
enter_signal(sig, st) ==
    LET df_tue == get_data_for_date(sig.symbol)
    IN  IF \E i \in 1..Len(st.positions) : st.positions[i].symbol = sig.symbol THEN st
        ELSE IF read_fails(sig.symbol) THEN st
        ELSE IF df_tue = << >> THEN st
        ELSE
          LET open_price == df_tue[1].open
              entry_price == (open_price * (1000 + ENTRY_SLIPPAGE_PERMILLE)) \div 1000
              total_equity == st.capital + calculate_positions_mtm(st.positions)
              dynamic_risk_amount == (total_equity * RISK_PERMILLE) \div 1000
              risk_per_share == entry_price - sig.stop_loss
              quantity == capped_quantity(entry_price,
                              risk_quantity(entry_price, sig.stop_loss, total_equity),
                              total_equity)
              capital_needed_eur == capital_needed(entry_price, quantity)
          IN  IF risk_per_share <= 0 THEN st
              ELSE IF st.capital < capital_needed_eur THEN st
              ELSE [positions |-> Append(st.positions,
                        [symbol |-> sig.symbol,
                         entry_date |-> current_date,
                         entry_week |-> week_count,
                         entry_price |-> entry_price,
                         stop_loss |-> sig.stop_loss,
                         quantity |-> quantity,
                         risk_amount |-> dynamic_risk_amount,
                         capital_allocated |-> capital_needed_eur,
                         highest_price |-> entry_price,
                         trailing_active |-> FALSE]),
                    capital |-> st.capital - capital_needed_eur]

RECURSIVE entry_loop(_, _)
entry_loop(sigs, st) ==
    IF sigs = << >> THEN st
    ELSE entry_loop(Tail(sigs), enter_signal(Head(sigs), st))

(***************************************************************************)
(* Backtest: state machine                                                 *)
(***************************************************************************)
NoBars == [s \in Symbols |-> NoBar]

BarsFor(d) ==
    IF d <= EndDate + 1 /\ IsTradingDay(d)
    THEN { b \in [Symbols -> UNION { BarChoices(s) : s \in Symbols }] :
             \A s \in Symbols : b[s] \in BarChoices(s) }
    ELSE {NoBars}

\* config.yaml risk.bear_market_*: the defaults (protection on, cash mode, exit
\* of the open positions), and the same without the exit
BtCfgs == { [bear_market_protection |-> TRUE, bear_market_mode |-> "cash",
             bear_market_exit_positions |-> TRUE],
            [bear_market_protection |-> TRUE, bear_market_mode |-> "cash",
             bear_market_exit_positions |-> FALSE] }

\* How far day d's delivery b is from all FlatBar (nothing on a closed day): a
\* bar that differs counts once, a day of failing reads counts twice.
Unusual(b, d) ==
    IF d <= EndDate + 1 /\ IsTradingDay(d)
    THEN Cardinality({ s \in Symbols : b[s] # FlatBar })
            + Cardinality({ s \in Symbols : b[s] = ErrBar })
    ELSE 0

\* Before the first Monday of the run nothing has been seen.
NoRegime == [adx |-> ADX_SKIP, bear_market |-> FALSE]

BacktestInit ==
    /\ current_date = 0
    /\ week_count = 0
    /\ effective_max_slots = MaxSlotsArg
    /\ pending_signals = << >>
    /\ current_positions = << >>
    /\ current_capital = InitialCapital
    /\ trades = << >>
    /\ bars \in BarsFor(0)
    /\ next_bars \in BarsFor(1)
    /\ last_close = [s \in Symbols |-> IF has_row(bars[s]) THEN bars[s].close ELSE 0]
    /\ bt_cfg \in BtCfgs
    /\ unusual_bars = Unusual(bars, 0) + Unusual(next_bars, 1)
    /\ unusual_bars <= MaxUnusualBars
    /\ bt_pc = "day"
    /\ equity_curve = 0
    /\ week_regime = NoRegime
    /\ friday_close = [s \in Symbols |-> 0]
    /\ opened = {}

\* The backtest not running (the other components' specifications).
ParkedBT ==
    /\ current_date = 0
    /\ week_count = 0
    /\ effective_max_slots = MaxSlotsArg
    /\ pending_signals = << >>
    /\ current_positions = << >>
    /\ current_capital = InitialCapital
    /\ trades = << >>
    /\ bars = NoBars
    /\ next_bars = NoBars
    /\ last_close = [s \in Symbols |-> 0]
    /\ bt_cfg = [bear_market_protection |-> TRUE, bear_market_mode |-> "cash",
                 bear_market_exit_positions |-> TRUE]
    /\ unusual_bars = 0
    /\ bt_pc = "off"
    /\ equity_curve = 0
    /\ week_regime = NoRegime
    /\ friday_close = [s \in Symbols |-> 0]
    /\ opened = {}

\* current_date += timedelta(days=1): the store's window moves with it.
\* After the last day the loop ends and the queries that follow are for `end`.
NextDay ==
    /\ current_date' = current_date + 1
    /\ IF current_date + 1 > EndDate
       THEN UNCHANGED << bars, next_bars, unusual_bars, last_close >>
       ELSE /\ bars' = next_bars
            /\ next_bars' \in BarsFor(current_date + 2)
            /\ unusual_bars' = unusual_bars + Unusual(next_bars', current_date + 2)
            /\ unusual_bars' <= MaxUnusualBars
            /\ last_close' = [s \in Symbols |->
                                IF has_row(next_bars[s]) THEN next_bars[s].close
                                ELSE last_close[s]]
    /\ bt_pc' = IF current_date + 1 > EndDate THEN "end" ELSE "day"

\* The signal lists a Monday plan may hold: distinct symbols, each with a stop.
SignalLists ==
    { s \in UNION { [1..n -> [symbol : Symbols, stop_loss : StopChoices]] : n \in 0..MaxSignals } :
        \A i, j \in 1..Len(s) : i # j => s[i].symbol # s[j].symbol }

RECURSIVE bear_exit_loop(_, _)
bear_exit_loop(todo, st) ==
    IF todo = << >> THEN st
    ELSE LET pos == Head(todo)
             exit_price == IF ~read_fails(pos.symbol) /\ last_close_until(pos.symbol) # 0
                           THEN last_close_until(pos.symbol) ELSE pos.entry_price
             outcome == create_outcome(pos, current_date, exit_price, "bear_market_exit")
         IN  bear_exit_loop(Tail(todo),
                [capital |-> st.capital + pos.capital_allocated + outcome.pnl_eur,
                 trades |-> Append(st.trades, outcome)])

\* Filter 1 of the Monday branch: "if adx < 15".
choppy_never(adx) == FALSE

choppy(adx) == adx < ADX_SKIP

\* Mutant of bear_slots: the cash mode leaves one slot like the reduced mode.
bear_slots_reduced(mode) == 1

\* effective_max_slots of a confirmed bear market, by risk.bear_market_mode
bear_slots(mode) == IF mode = "cash" THEN 0 ELSE 1

\* weekday == 0
Monday(adx, bear_market, spy_below_sma200, signals) ==
    /\ bt_pc = "day" /\ weekday(current_date) = 0 /\ current_date <= EndDate
    /\ week_count' = week_count + 1
    /\ week_regime' = [adx |-> adx, bear_market |-> bear_market]
    /\ IF choppy(adx)
       THEN /\ pending_signals' = << >>
            /\ effective_max_slots' = 0
            /\ UNCHANGED << current_positions, current_capital, trades >>
       ELSE /\ pending_signals' = signals
            /\ IF bt_cfg.bear_market_protection /\ bear_market
               THEN /\ effective_max_slots' = bear_slots(bt_cfg.bear_market_mode)
                    /\ IF bt_cfg.bear_market_exit_positions /\ current_positions # << >>
                       THEN LET st == bear_exit_loop(current_positions,
                                        [capital |-> current_capital, trades |-> trades])
                            IN  /\ current_positions' = << >>
                                /\ current_capital' = st.capital
                                /\ trades' = st.trades
                       ELSE UNCHANGED << current_positions, current_capital, trades >>
               ELSE /\ effective_max_slots' =
                         IF spy_below_sma200 THEN Max(1, MaxSlotsArg - 1) ELSE MaxSlotsArg
                    /\ UNCHANGED << current_positions, current_capital, trades >>
    /\ equity_curve' = equity_snapshot(FALSE)
    /\ friday_close' = [s \in Symbols |-> 0]
    /\ NextDay
    /\ UNCHANGED << bt_cfg, opened >>

\* weekday == 0 when pm.generate_portfolio_signals raises: week_count has been
\* incremented, the rest of the branch and the equity snapshot are skipped by
\* the handler's "except Exception", and the loop goes on to the next day.
MondayAborted ==
    /\ bt_pc = "day" /\ weekday(current_date) = 0 /\ current_date <= EndDate
    /\ week_count' = week_count + 1
    /\ friday_close' = [s \in Symbols |-> 0]
    /\ NextDay
    /\ UNCHANGED << effective_max_slots, pending_signals, current_positions,
                    current_capital, trades, bt_cfg, equity_curve, week_regime, opened >>

\* Mutant of TuesdayCarryOver: entries start without the carry-over stop check.
TuesdayCarryOver_unchecked ==
    /\ bt_pc = "day" /\ weekday(current_date) = 1 /\ current_date <= EndDate
    /\ bt_pc' = "tue_b"
    /\ UNCHANGED << current_date, week_count, effective_max_slots, pending_signals,
                    current_positions, current_capital, trades,
                    bars, next_bars, last_close, bt_cfg, unusual_bars,
                    equity_curve, week_regime, friday_close, opened >>

\* weekday == 1, phase (a): stop check of the carry-over positions.  An
\* exception out of it ends the day at the handler's "except Exception".
TuesdayCarryOver ==
    /\ bt_pc = "day" /\ weekday(current_date) = 1 /\ current_date <= EndDate
    /\ LET st == run_stop_loop(FALSE)
       IN  /\ current_positions' = st.positions
           /\ current_capital' = st.capital
           /\ trades' = st.trades
           /\ IF st.raised
              THEN NextDay
              ELSE /\ bt_pc' = "tue_b"
                   /\ UNCHANGED << current_date, bars, next_bars, last_close, unusual_bars >>
    /\ UNCHANGED << week_count, effective_max_slots, pending_signals, bt_cfg,
                    equity_curve, week_regime, friday_close, opened >>

\* Mutant of TuesdayEntries: without "pending_signals = []" after the entry loop.
TuesdayEntries_keeps_pending ==
    /\ bt_pc = "tue_b"
    /\ LET st == entry_loop(
                    PySlicePrefix(pending_signals, available_slots(Len(current_positions))),
                    [positions |-> current_positions, capital |-> current_capital])
       IN  /\ current_positions' = st.positions
           /\ current_capital' = st.capital
           /\ opened' = opened \cup
                  { << st.positions[i].symbol, st.positions[i].entry_date >> :
                      i \in (Len(current_positions) + 1)..Len(st.positions) }
    /\ pending_signals' = pending_signals
    /\ bt_pc' = "tue_c"
    /\ UNCHANGED << current_date, week_count, effective_max_slots, trades,
                    bars, next_bars, last_close, bt_cfg, unusual_bars,
                    equity_curve, week_regime, friday_close >>

\* weekday == 1, phase (b): entries from the pending signals
TuesdayEntries ==
    /\ bt_pc = "tue_b"
    /\ LET st == entry_loop(
                    PySlicePrefix(pending_signals, available_slots(Len(current_positions))),
                    [positions |-> current_positions, capital |-> current_capital])
       IN  /\ current_positions' = st.positions
           /\ current_capital' = st.capital
           /\ opened' = opened \cup
                  { << st.positions[i].symbol, st.positions[i].entry_date >> :
                      i \in (Len(current_positions) + 1)..Len(st.positions) }
    /\ pending_signals' = << >>
    /\ bt_pc' = "tue_c"
    /\ UNCHANGED << current_date, week_count, effective_max_slots, trades,
                    bars, next_bars, last_close, bt_cfg, unusual_bars,
                    equity_curve, week_regime, friday_close >>

\* weekday == 1, phase (c): stop re-check, then the day ends
TuesdayRecheck ==
    /\ bt_pc = "tue_c"
    /\ LET st == run_stop_loop(FALSE)
       IN  /\ current_positions' = st.positions
           /\ current_capital' = st.capital
           /\ trades' = st.trades
           /\ equity_curve' = equity_snapshot(st.raised)
    /\ NextDay
    /\ UNCHANGED << week_count, effective_max_slots, pending_signals, bt_cfg,
                    week_regime, friday_close, opened >>

\* weekday in [2, 3]
WedThu ==
    /\ bt_pc = "day" /\ weekday(current_date) \in {2, 3} /\ current_date <= EndDate
    /\ LET st == run_stop_loop(FALSE)
       IN  /\ current_positions' = st.positions
           /\ current_capital' = st.capital
           /\ trades' = st.trades
           /\ equity_curve' = equity_snapshot(st.raised)
    /\ NextDay
    /\ UNCHANGED << week_count, effective_max_slots, pending_signals, bt_cfg,
                    week_regime, friday_close, opened >>

\* weekday == 4
Friday ==
    /\ bt_pc = "day" /\ weekday(current_date) = 4 /\ current_date <= EndDate
    /\ LET st == run_stop_loop(TRUE)
       IN  /\ current_positions' = st.positions
           /\ current_capital' = st.capital
           /\ trades' = st.trades
           /\ equity_curve' = equity_snapshot(st.raised)
    /\ friday_close' = last_close
    /\ NextDay
    /\ UNCHANGED << week_count, effective_max_slots, pending_signals, bt_cfg,
                    week_regime, opened >>

\* weekday in [5, 6]: no branch of the handler applies
Weekend ==
    /\ bt_pc = "day" /\ weekday(current_date) \in {5, 6} /\ current_date <= EndDate
    /\ NextDay
    /\ UNCHANGED << week_count, effective_max_slots, pending_signals,
                    current_positions, current_capital, trades, bt_cfg,
                    equity_curve, week_regime, friday_close, opened >>

RECURSIVE force_close_loop(_, _)
force_close_loop(todo, st) ==
    IF todo = << >> THEN st
    ELSE LET pos == Head(todo)
             outcome == force_close_position(pos, EndDate)
         IN  force_close_loop(Tail(todo),
                [capital |-> st.capital + pos.capital_allocated + outcome.pnl_eur,
                 trades |-> Append(st.trades, outcome)])

\* after the loop: force close the remaining positions at `end`
ForceClose ==
    /\ bt_pc = "end"
    /\ LET st == force_close_loop(current_positions,
                    [capital |-> current_capital, trades |-> trades])
       IN  /\ current_capital' = st.capital
           /\ trades' = st.trades
    /\ bt_pc' = "done"
    /\ UNCHANGED << current_date, week_count, effective_max_slots, pending_signals,
                    current_positions, bars, next_bars, last_close, bt_cfg, unusual_bars,
                    equity_curve, week_regime, friday_close, opened >>

NextBT ==
    \/ \E adx \in AdxChoices, bear_market \in BOOLEAN, spy_below_sma200 \in BOOLEAN,
          signals \in SignalLists :
          /\ bear_market => spy_below_sma200
          /\ Monday(adx, bear_market, spy_below_sma200, signals)
          /\ UNCHANGED << rl_vars, db_vars, dd_vars, sz_vars, sd_vars, mh_vars, up_vars, st_vars, mon_vars, fx_vars >>
    \/ TuesdayCarryOver /\ UNCHANGED << rl_vars, db_vars, dd_vars, sz_vars, sd_vars, mh_vars, up_vars, st_vars, mon_vars, fx_vars >>
    \/ TuesdayEntries /\ UNCHANGED << rl_vars, db_vars, dd_vars, sz_vars, sd_vars, mh_vars, up_vars, st_vars, mon_vars, fx_vars >>
    \/ TuesdayRecheck /\ UNCHANGED << rl_vars, db_vars, dd_vars, sz_vars, sd_vars, mh_vars, up_vars, st_vars, mon_vars, fx_vars >>
    \/ WedThu /\ UNCHANGED << rl_vars, db_vars, dd_vars, sz_vars, sd_vars, mh_vars, up_vars, st_vars, mon_vars, fx_vars >>
    \/ Friday /\ UNCHANGED << rl_vars, db_vars, dd_vars, sz_vars, sd_vars, mh_vars, up_vars, st_vars, mon_vars, fx_vars >>
    \/ Weekend /\ UNCHANGED << rl_vars, db_vars, dd_vars, sz_vars, sd_vars, mh_vars, up_vars, st_vars, mon_vars, fx_vars >>
    \/ ForceClose /\ UNCHANGED << rl_vars, db_vars, dd_vars, sz_vars, sd_vars, mh_vars, up_vars, st_vars, mon_vars, fx_vars >>

\* The backtest with Mondays whose signal generation raises.
NextBA ==
    \/ NextBT
    \/ MondayAborted /\ UNCHANGED << rl_vars, db_vars, dd_vars, sz_vars, sd_vars, mh_vars, up_vars, st_vars, mon_vars, fx_vars >>


(***************************************************************************)
(* Token bucket and the fetch path                                         *)
(*                                                                         *)
(* Time advances in ticks of 6 s (TicksPerMinute ticks to the minute) and   *)
(* tokens are counted in units of 1/TokenUnit token, so that with the free  *)
(* plan's 5 requests per minute the bucket refills one unit per tick.       *)
(* Clock readings are kept relative: rl_since_refill is now - last_refill,  *)
(* and a sleeping task carries the ticks it still has to sleep.             *)
(***************************************************************************)
NumTasks == 2                  \* fetch tasks sharing one provider instance

requests_per_minute == 5       \* rpm of the free plan
TokenUnit == 2                 \* units per token
TicksPerMinute == 10           \* ticks per 60 s

Tasks == 1..NumTasks

\* burst = max(1, rpm // 10), in units
capacity == Max(1, requests_per_minute \div 10) * TokenUnit

\* refill_rate = rpm / 60.0 tokens per second, in units per tick
refill_rate == (requests_per_minute * TokenUnit) \div TicksPerMinute

\* asyncio.sleep(60) after HTTP 429, in ticks
SLEEP_429 == TicksPerMinute

\* Beyond this age a refill fills the bucket whatever the level was.
MaxAge == capacity \div refill_rate

IdleTask == [phase |-> "none", step |-> "idle", sleep_left |-> 0, taken |-> 0, sent |-> 0]

BucketInit ==
    /\ rl_tokens = capacity
    /\ rl_since_refill = 0
    /\ rl_lock = 0
    /\ rl_waiters = << >>
    /\ rl_task = [t \in Tasks |-> IdleTask]
    /\ rl_credit = capacity

\* TokenBucket._refill: the level after the refill
refill(tokens, elapsed) == Min(capacity, tokens + elapsed * refill_rate)

\* Mutant of wait_time: the waiter does not sleep for the missing tokens.
wait_time_none(tokens) == 0

\* wait_time = (tokens - self.tokens) / self.refill_rate, for one token
wait_time(tokens) == (TokenUnit - tokens + refill_rate - 1) \div refill_rate

\* asyncio.Lock.acquire returns at once only when the lock is free and nobody queues.
lock_is_free == rl_lock = 0 /\ rl_waiters = << >>

\* The task after its wait_for_token returned: the wrapper's token leads into
\* get_historical_data, the provider's token is followed at once by session.get.
after_token(task) ==
    IF task.phase = "wrap"
    THEN [task EXCEPT !.phase = "inner", !.step = "acquire", !.taken = @ + 1]
    ELSE [task EXCEPT !.step = "response", !.taken = @ + 1, !.sent = @ + 1]

\* Mutant of release: the first waiter is not woken when the lock is left.
release_lost(tasks) == tasks

\* Leaving "async with self._lock": the lock passes to the first waiter.
release(tasks) ==
    IF rl_waiters = << >> THEN tasks
    ELSE [tasks EXCEPT ![Head(rl_waiters)].step = "granted"]

\* wait_for_token up to the sleep, by the task t that holds the lock:
\* refill, then either take the token and leave, or sleep holding the lock.
enter_bucket(t) ==
    LET level == refill(rl_tokens, rl_since_refill)
    IN  /\ rl_since_refill' = 0
        /\ IF level < TokenUnit
           THEN /\ rl_tokens' = level
                /\ rl_lock' = t
                /\ rl_waiters' = rl_waiters
                /\ rl_task' = [rl_task EXCEPT ![t].step = "sleeping",
                                              ![t].sleep_left = wait_time(level)]
                /\ rl_credit' = rl_credit
           ELSE /\ rl_tokens' = level - TokenUnit
                /\ rl_lock' = IF rl_waiters = << >> THEN 0 ELSE Head(rl_waiters)
                /\ rl_waiters' = IF rl_waiters = << >> THEN << >> ELSE Tail(rl_waiters)
                /\ rl_task' = [release(rl_task) EXCEPT ![t] = after_token(rl_task[t])]
                /\ rl_credit' = IF rl_task[t].phase = "wrap" THEN rl_credit
                                ELSE rl_credit - TokenUnit

\* A task starts a fetch: through DataUpdater._fetch_with_retry, or by calling
\* PolygonProvider.get_historical_data directly (get_multiple_symbols).
RlStart(t, via_wrapper) ==
    /\ rl_task[t].step = "idle"
    /\ rl_task' = [rl_task EXCEPT ![t] =
                      [phase |-> IF via_wrapper THEN "wrap" ELSE "inner",
                       step |-> "acquire", sleep_left |-> 0, taken |-> 0, sent |-> 0]]
    /\ UNCHANGED << rl_tokens, rl_since_refill, rl_lock, rl_waiters, rl_credit >>

\* await self._rate_limiter.wait_for_token(): take the lock or queue for it
RlAcquire(t) ==
    /\ rl_task[t].step = "acquire"
    /\ IF lock_is_free
       THEN enter_bucket(t)
       ELSE /\ rl_waiters' = Append(rl_waiters, t)
            /\ rl_task' = [rl_task EXCEPT ![t].step = "queued"]
            /\ UNCHANGED << rl_tokens, rl_since_refill, rl_lock, rl_credit >>

\* A queued task that was handed the lock resumes.
RlGranted(t) ==
    /\ rl_task[t].step = "granted"
    /\ enter_bucket(t)

\* The sleeper wakes: refill again, take the token whatever the level, leave.
RlWake(t) ==
    /\ rl_task[t].step = "sleeping"
    /\ rl_task[t].sleep_left = 0
    /\ LET level == refill(rl_tokens, rl_since_refill)
       IN  /\ rl_tokens' = level - TokenUnit
           /\ rl_since_refill' = 0
           /\ rl_lock' = IF rl_waiters = << >> THEN 0 ELSE Head(rl_waiters)
           /\ rl_waiters' = IF rl_waiters = << >> THEN << >> ELSE Tail(rl_waiters)
           /\ rl_task' = [release(rl_task) EXCEPT ![t] = after_token(rl_task[t])]
           /\ rl_credit' = IF rl_task[t].phase = "wrap" THEN rl_credit
                           ELSE rl_credit - TokenUnit

HttpOutcomes == {"ok", "no_data", "429", "error_status", "exception"}

\* The vendor answers (or the request fails): get_historical_data returns a frame
\* in every case but a first 429, after which it sleeps 60 s and retries once.
RlRespond(t, outcome) ==
    /\ rl_task[t].step = "response"
    /\ rl_task' = [rl_task EXCEPT ![t] =
                      IF outcome = "429" /\ rl_task[t].phase = "inner"
                      THEN [@ EXCEPT !.step = "sleep429", !.sleep_left = SLEEP_429]
                      ELSE [@ EXCEPT !.step = "done"]]
    /\ UNCHANGED << rl_tokens, rl_since_refill, rl_lock, rl_waiters, rl_credit >>

\* After the 60 s: "Retry once" takes another token.
RlRetry(t) ==
    /\ rl_task[t].step = "sleep429"
    /\ rl_task[t].sleep_left = 0
    /\ rl_task' = [rl_task EXCEPT ![t].phase = "retry", ![t].step = "acquire"]
    /\ UNCHANGED << rl_tokens, rl_since_refill, rl_lock, rl_waiters, rl_credit >>

\* The fetch returned; the task may serve the next symbol.
RlReturn(t) ==
    /\ rl_task[t].step = "done"
    /\ rl_task' = [rl_task EXCEPT ![t] = IdleTask]
    /\ UNCHANGED << rl_tokens, rl_since_refill, rl_lock, rl_waiters, rl_credit >>

\* One tick of time passes (a sleeper may be resumed late, never early).
RlTick ==
    /\ rl_since_refill' = Min(MaxAge, rl_since_refill + 1)
    /\ rl_task' = [t \in Tasks |-> [rl_task[t] EXCEPT !.sleep_left = Max(0, @ - 1)]]
    /\ rl_credit' = Min(capacity, rl_credit + refill_rate)
    /\ UNCHANGED << rl_tokens, rl_lock, rl_waiters >>

NextRL ==
    \/ \E t \in Tasks, via_wrapper \in BOOLEAN : RlStart(t, via_wrapper) /\ UNCHANGED << bt_vars, db_vars, dd_vars, sz_vars, sd_vars, mh_vars, up_vars, st_vars, mon_vars, fx_vars >>
    \/ \E t \in Tasks : RlAcquire(t) /\ UNCHANGED << bt_vars, db_vars, dd_vars, sz_vars, sd_vars, mh_vars, up_vars, st_vars, mon_vars, fx_vars >>
    \/ \E t \in Tasks : RlGranted(t) /\ UNCHANGED << bt_vars, db_vars, dd_vars, sz_vars, sd_vars, mh_vars, up_vars, st_vars, mon_vars, fx_vars >>
    \/ \E t \in Tasks : RlWake(t) /\ UNCHANGED << bt_vars, db_vars, dd_vars, sz_vars, sd_vars, mh_vars, up_vars, st_vars, mon_vars, fx_vars >>
    \/ \E t \in Tasks, outcome \in HttpOutcomes : RlRespond(t, outcome) /\ UNCHANGED << bt_vars, db_vars, dd_vars, sz_vars, sd_vars, mh_vars, up_vars, st_vars, mon_vars, fx_vars >>
    \/ \E t \in Tasks : RlRetry(t) /\ UNCHANGED << bt_vars, db_vars, dd_vars, sz_vars, sd_vars, mh_vars, up_vars, st_vars, mon_vars, fx_vars >>
    \/ \E t \in Tasks : RlReturn(t) /\ UNCHANGED << bt_vars, db_vars, dd_vars, sz_vars, sd_vars, mh_vars, up_vars, st_vars, mon_vars, fx_vars >>
    \/ RlTick /\ UNCHANGED << bt_vars, db_vars, dd_vars, sz_vars, sd_vars, mh_vars, up_vars, st_vars, mon_vars, fx_vars >>

(***************************************************************************)
(* Market store: insert_data and get_data                                  *)
(*                                                                         *)
(* A row is [timestamp, symbol, close]; close stands for the five value    *)
(* columns.  The table's PRIMARY KEY (timestamp, symbol) is enforced by    *)
(* the INSERT statement.                                                    *)
(***************************************************************************)
MaxRows == 2               \* longest frame passed to insert_data

Timestamps == {1, 2}

CloseValues == {10, 11}

Rows == [timestamp : Timestamps, symbol : Symbols, close : CloseValues]

\* The frames insert_data is called with: the bars fetched for one symbol
SymbolFrames(symbol) ==
    UNION { [1..n -> { r \in Rows : r.symbol = symbol }] : n \in 0..MaxRows }

Frames == UNION { SymbolFrames(symbol) : symbol \in Symbols }

Keys == Timestamps \X Symbols

KeyOf(row) == << row.timestamp, row.symbol >>

NoValue == 0

StoreInit ==
    /\ market_data = {}
    /\ db_txn = {}
    /\ db_pc = "idle"
    /\ db_df = << >>
    /\ db_raised = FALSE
    /\ db_failed_at = "none"
    /\ db_latest = [k \in Keys |-> NoValue]
    /\ db_before = {}

\* Mutant of delete_matching: the DELETE matches on the timestamp alone.
delete_matching_timestamp(table, df) ==
    { r \in table : ~\E i \in 1..Len(df) : df[i].timestamp = r.timestamp }

\* DELETE FROM market_data WHERE (timestamp, symbol) IN (SELECT ... FROM temp_data)
delete_matching(table, df) ==
    { r \in table : ~\E i \in 1..Len(df) : KeyOf(df[i]) = KeyOf(r) }

\* INSERT INTO market_data SELECT ... FROM temp_data violates the primary key
primary_key_violation(table, df) ==
    \/ \E i, j \in 1..Len(df) : i # j /\ KeyOf(df[i]) = KeyOf(df[j])
    \/ \E i \in 1..Len(df) : \E r \in table : KeyOf(r) = KeyOf(df[i])

insert_rows(table, df) == table \cup Range(df)

\* SELECT * FROM market_data WHERE symbol = ? ORDER BY timestamp
RECURSIVE order_by_timestamp(_)
order_by_timestamp(rows) ==
    IF rows = {} THEN << >>
    ELSE LET first == CHOOSE r \in rows : \A q \in rows : r.timestamp <= q.timestamp
         IN  << first >> \o order_by_timestamp(rows \ {first})

get_data(symbol) == order_by_timestamp({ r \in market_data : r.symbol = symbol })

\* MarketDatabase.get_data(symbol, start_date, end_date):
\* ... AND timestamp >= ? AND timestamp <= ? ORDER BY timestamp
get_data_between(symbol, start_date, end_date) ==
    order_by_timestamp({ r \in market_data :
        r.symbol = symbol /\ r.timestamp >= start_date /\ r.timestamp <= end_date })

\* MarketDatabase.get_data_for_date(symbol, date): start = normalize(date),
\* end = start + 1 day.  Timestamps count days, a bar being stamped at the
\* midnight that starts its trading day.
get_for_date(symbol, date) == get_data_between(symbol, date, date + 1)

\* Mutant of rollback: the except branch re-raises without ROLLBACK.
rollback_missing(table, snapshot) == table

\* ROLLBACK: the table is again what it was at BEGIN TRANSACTION
rollback(table, snapshot) == snapshot

\* insert_data(df) up to BEGIN TRANSACTION; an empty frame returns at once
InsertBegin(df) ==
    /\ db_pc = "idle"
    /\ db_df' = df
    /\ db_raised' = FALSE
    /\ db_failed_at' = "none"
    /\ IF df = << >>
       THEN UNCHANGED << db_pc, db_txn >>
       ELSE db_pc' = "delete" /\ db_txn' = market_data
    /\ db_before' = market_data
    /\ UNCHANGED << market_data, db_latest >>

InsertDelete ==
    /\ db_pc = "delete"
    /\ market_data' = delete_matching(market_data, db_df)
    /\ db_pc' = "insert"
    /\ UNCHANGED << db_txn, db_df, db_raised, db_failed_at, db_latest, db_before >>

\* The INSERT statement; a primary key violation raises into the except branch.
InsertInsert ==
    /\ db_pc = "insert"
    /\ IF primary_key_violation(market_data, db_df)
       THEN /\ market_data' = rollback(market_data, db_txn)
            /\ db_pc' = "idle"
            /\ db_raised' = TRUE
            /\ db_failed_at' = "insert"
            /\ db_txn' = {}
       ELSE /\ market_data' = insert_rows(market_data, db_df)
            /\ db_pc' = "commit"
            /\ UNCHANGED << db_raised, db_failed_at, db_txn >>
    /\ UNCHANGED << db_df, db_latest, db_before >>

InsertCommit ==
    /\ db_pc = "commit"
    /\ db_pc' = "idle"
    /\ db_txn' = {}
    /\ db_latest' = [k \in Keys |->
                       IF \E i \in 1..Len(db_df) : KeyOf(db_df[i]) = k
                       THEN (CHOOSE r \in Range(db_df) : KeyOf(r) = k).close
                       ELSE db_latest[k]]
    /\ UNCHANGED << market_data, db_df, db_raised, db_failed_at, db_before >>

\* A statement of the transaction raises (engine or I/O error): the except
\* branch runs ROLLBACK and re-raises.
InsertFails ==
    /\ db_pc \in {"delete", "insert", "commit"}
    /\ market_data' = rollback(market_data, db_txn)
    /\ db_pc' = "idle"
    /\ db_raised' = TRUE
    /\ db_failed_at' = db_pc
    /\ db_txn' = {}
    /\ UNCHANGED << db_df, db_latest, db_before >>

NextDB ==
    \/ \E df \in Frames : InsertBegin(df) /\ UNCHANGED << bt_vars, rl_vars, dd_vars, sz_vars, sd_vars, mh_vars, up_vars, st_vars, mon_vars, fx_vars >>
    \/ InsertDelete /\ UNCHANGED << bt_vars, rl_vars, dd_vars, sz_vars, sd_vars, mh_vars, up_vars, st_vars, mon_vars, fx_vars >>
    \/ InsertInsert /\ UNCHANGED << bt_vars, rl_vars, dd_vars, sz_vars, sd_vars, mh_vars, up_vars, st_vars, mon_vars, fx_vars >>
    \/ InsertCommit /\ UNCHANGED << bt_vars, rl_vars, dd_vars, sz_vars, sd_vars, mh_vars, up_vars, st_vars, mon_vars, fx_vars >>
    \/ InsertFails /\ UNCHANGED << bt_vars, rl_vars, dd_vars, sz_vars, sd_vars, mh_vars, up_vars, st_vars, mon_vars, fx_vars >>

(***************************************************************************)
(* Drawdown protection (class DrawdownProtection)                          *)
(*                                                                         *)
(* Equity and pnl are in units of EUR 100; risk_multiplier is in percent.  *)
(* None is NoEquity.  The month of _monthly_start_date is kept relative to *)
(* the clock, as the number of month changes since start_month.            *)
(***************************************************************************)
MaxStreak == 6             \* longest run of equal results recorded

StreakWindow == 5          \* results remembered by the observer dd_recent

MaxEquitySwing == 4        \* current equity stays within this of EquityBase

CONSECUTIVE_LOSS_REDUCE_RISK == 3

CONSECUTIVE_LOSS_MAX_ONE_POSITION == 5

MONTHLY_DRAWDOWN_PAUSE == 6

MONTHLY_DRAWDOWN_STOP == 10

CONFIGURED_MAX_POSITIONS == 5

REDUCED_RISK_PCT == 50

NORMAL_RISK_PCT == 100

MonthsInYear == 12

EquityBase == 100

EquityChoices == {88, 92, 95, EquityBase}

PnlChoices == {-2, 0, 2}

NoEquity == -1

NotSaved == [consecutive_losses |-> 0, consecutive_wins |-> 0,
             monthly_start_equity |-> NoEquity, current_equity |-> NoEquity]

ProtectionInit ==
    /\ dd_consecutive_losses = 0
    /\ dd_consecutive_wins = 0
    /\ dd_monthly_start_equity = NoEquity
    /\ dd_months_since_start = 0
    /\ dd_current_equity = NoEquity
    /\ dd_saved = NotSaved
    /\ dd_recent = << >>
    /\ dd_last_op = "init"

\* _save_to_db: the counters always, the equities only when truthy
save_to_db(losses, wins, start_equity, current_equity) ==
    [consecutive_losses   |-> losses,
     consecutive_wins     |-> wins,
     monthly_start_equity |-> IF start_equity # NoEquity /\ start_equity # 0
                              THEN start_equity ELSE dd_saved.monthly_start_equity,
     current_equity       |-> IF current_equity # NoEquity /\ current_equity # 0
                              THEN current_equity ELSE dd_saved.current_equity]

\* get_monthly_drawdown_percent() >= threshold, on the exact quotient
drawdown_at_least(start_equity, current_equity, threshold) ==
    /\ start_equity # NoEquity
    /\ current_equity # NoEquity
    /\ start_equity > 0
    /\ (start_equity - current_equity) * 100 >= threshold * start_equity

\* Mutant of get_protection_status: the loss thresholds compare with > .
get_protection_status_strict(losses, start_equity, current_equity) ==
    [risk_multiplier |-> IF losses > CONSECUTIVE_LOSS_REDUCE_RISK
                         THEN REDUCED_RISK_PCT ELSE NORMAL_RISK_PCT,
     max_positions   |-> IF losses > CONSECUTIVE_LOSS_MAX_ONE_POSITION
                         THEN 1 ELSE CONFIGURED_MAX_POSITIONS,
     is_stopped      |-> drawdown_at_least(start_equity, current_equity, MONTHLY_DRAWDOWN_STOP),
     is_paused       |-> /\ ~drawdown_at_least(start_equity, current_equity, MONTHLY_DRAWDOWN_STOP)
                         /\ drawdown_at_least(start_equity, current_equity, MONTHLY_DRAWDOWN_PAUSE),
     is_trading_allowed |-> ~drawdown_at_least(start_equity, current_equity, MONTHLY_DRAWDOWN_STOP)]

get_protection_status(losses, start_equity, current_equity) ==
    [risk_multiplier |-> IF losses >= CONSECUTIVE_LOSS_MAX_ONE_POSITION THEN REDUCED_RISK_PCT
                         ELSE IF losses >= CONSECUTIVE_LOSS_REDUCE_RISK THEN REDUCED_RISK_PCT
                         ELSE NORMAL_RISK_PCT,
     max_positions   |-> IF losses >= CONSECUTIVE_LOSS_MAX_ONE_POSITION
                         THEN 1 ELSE CONFIGURED_MAX_POSITIONS,
     is_stopped      |-> drawdown_at_least(start_equity, current_equity, MONTHLY_DRAWDOWN_STOP),
     is_paused       |-> /\ ~drawdown_at_least(start_equity, current_equity, MONTHLY_DRAWDOWN_STOP)
                         /\ drawdown_at_least(start_equity, current_equity, MONTHLY_DRAWDOWN_PAUSE),
     is_trading_allowed |-> ~drawdown_at_least(start_equity, current_equity, MONTHLY_DRAWDOWN_STOP)]

\* What get_protection_status() returns in the current state
ProtectionStatus ==
    get_protection_status(dd_consecutive_losses, dd_monthly_start_equity, dd_current_equity)

remember(recent, is_winner) ==
    LET all == Append(recent, is_winner)
    IN  IF Len(all) > StreakWindow THEN Tail(all) ELSE all

record_trade_result(is_winner, pnl) ==
    /\ IF is_winner THEN dd_consecutive_wins < MaxStreak
                    ELSE dd_consecutive_losses < MaxStreak
    /\ dd_current_equity # NoEquity =>
          /\ dd_current_equity + pnl >= EquityBase - 3 * MaxEquitySwing
          /\ dd_current_equity + pnl <= EquityBase + MaxEquitySwing
    /\ dd_consecutive_wins' = IF is_winner THEN dd_consecutive_wins + 1 ELSE 0
    /\ dd_consecutive_losses' = IF is_winner THEN 0 ELSE dd_consecutive_losses + 1
    /\ dd_current_equity' = IF dd_current_equity # NoEquity
                            THEN dd_current_equity + pnl ELSE dd_current_equity
    /\ dd_saved' = save_to_db(dd_consecutive_losses', dd_consecutive_wins',
                              dd_monthly_start_equity, dd_current_equity')
    /\ dd_recent' = remember(dd_recent, is_winner)
    /\ dd_last_op' = "record_trade_result"
    /\ UNCHANGED << dd_monthly_start_equity, dd_months_since_start >>

start_month(current_equity) ==
    /\ dd_monthly_start_equity' = current_equity
    /\ dd_months_since_start' = 0
    /\ dd_current_equity' = current_equity
    /\ dd_saved' = save_to_db(dd_consecutive_losses, dd_consecutive_wins,
                              current_equity, current_equity)
    /\ dd_last_op' = "start_month"
    /\ UNCHANGED << dd_consecutive_losses, dd_consecutive_wins, dd_recent >>

update_equity(current_equity) ==
    /\ dd_current_equity' = current_equity
    /\ IF dd_monthly_start_equity = NoEquity \/ dd_months_since_start # 0
       THEN /\ dd_monthly_start_equity' = current_equity
            /\ dd_months_since_start' = 0
       ELSE UNCHANGED << dd_monthly_start_equity, dd_months_since_start >>
    /\ dd_saved' = save_to_db(dd_consecutive_losses, dd_consecutive_wins,
                              dd_monthly_start_equity', current_equity)
    /\ dd_last_op' = "update_equity"
    /\ UNCHANGED << dd_consecutive_losses, dd_consecutive_wins, dd_recent >>

reset ==
    /\ dd_consecutive_losses' = 0
    /\ dd_consecutive_wins' = 0
    /\ dd_saved' = save_to_db(0, 0, dd_monthly_start_equity, dd_current_equity)
    /\ dd_recent' = << >>
    /\ dd_last_op' = "reset"
    /\ UNCHANGED << dd_monthly_start_equity, dd_months_since_start, dd_current_equity >>

\* The calendar month changes while a month is being tracked.
MonthPasses ==
    /\ dd_monthly_start_equity # NoEquity
    /\ dd_months_since_start' = (dd_months_since_start + 1) % MonthsInYear
    /\ dd_last_op' = "clock"
    /\ UNCHANGED << dd_consecutive_losses, dd_consecutive_wins, dd_monthly_start_equity,
                    dd_current_equity, dd_saved, dd_recent >>

\* A new process: __init__ followed by _load_from_db
Restart ==
    /\ dd_last_op # "init"
    /\ dd_consecutive_losses' = dd_saved.consecutive_losses
    /\ dd_consecutive_wins' = dd_saved.consecutive_wins
    /\ dd_monthly_start_equity' = dd_saved.monthly_start_equity
    /\ dd_current_equity' = dd_saved.current_equity
    /\ dd_last_op' = "load"
    /\ UNCHANGED << dd_months_since_start, dd_saved, dd_recent >>

NextDD ==
    \/ \E is_winner \in BOOLEAN, pnl \in PnlChoices :
          record_trade_result(is_winner, pnl) /\ UNCHANGED << bt_vars, rl_vars, db_vars, sz_vars, sd_vars, mh_vars, up_vars, st_vars, mon_vars, fx_vars >>
    \/ \E e \in EquityChoices : start_month(e) /\ UNCHANGED << bt_vars, rl_vars, db_vars, sz_vars, sd_vars, mh_vars, up_vars, st_vars, mon_vars, fx_vars >>
    \/ \E e \in EquityChoices : update_equity(e) /\ UNCHANGED << bt_vars, rl_vars, db_vars, sz_vars, sd_vars, mh_vars, up_vars, st_vars, mon_vars, fx_vars >>
    \/ reset /\ UNCHANGED << bt_vars, rl_vars, db_vars, sz_vars, sd_vars, mh_vars, up_vars, st_vars, mon_vars, fx_vars >>
    \/ MonthPasses /\ UNCHANGED << bt_vars, rl_vars, db_vars, sz_vars, sd_vars, mh_vars, up_vars, st_vars, mon_vars, fx_vars >>
    \/ Restart /\ UNCHANGED << bt_vars, rl_vars, db_vars, sz_vars, sd_vars, mh_vars, up_vars, st_vars, mon_vars, fx_vars >>

(***************************************************************************)
(* Position sizing                                                         *)
(*                                                                         *)
(* The three sizers of the system applied to one signal: the Tuesday entry *)
(* loop of the backtest, PortfolioManager._apply_dynamic_sizing and        *)
(* RiskManager.calculate_position_size.  Prices are USD cents, equity and  *)
(* risk are EUR cents; quantity 0 stands for "not sized / not opened".     *)
(***************************************************************************)
EntryPrices == {10000, 150000, 400000}

StopPercents == {90, 99}

Equities == {100000, 1000000}

NoRiskSetting == 0

RiskSettings == {NoRiskSetting, 2000}

MAX_RISK_PER_TRADE_FIXED == 10000

SLOTS_COUNT == 3

SizingInit ==
    /\ sz_entry_price = 10000
    /\ sz_stop_loss = 9000
    /\ sz_total_equity = 1000000
    /\ sz_cash = 1000000
    /\ sz_risk = NoRiskSetting
    /\ sz_quantity = 0
    /\ sz_path = "input"

\* Value of quantity shares in EUR is above cap_pct % of equity
value_exceeds(entry_price, quantity, equity, cap_pct) ==
    entry_price * quantity * EUR_USD_RATE_PCT > equity * cap_pct

\* run_portfolio_backtest, entry loop: the quantity opened, 0 when skipped
backtest_position_size(entry_price, stop_loss, total_equity, cash) ==
    IF entry_price - stop_loss <= 0 THEN 0
    ELSE LET quantity == capped_quantity(entry_price,
                             risk_quantity(entry_price, stop_loss, total_equity),
                             total_equity)
         IN  IF cash < capital_needed(entry_price, quantity) THEN 0 ELSE quantity

\* PortfolioManager._apply_dynamic_sizing for one signal: the position_size set
dynamic_position_size(entry_price, stop_loss, total_capital, available_capital, risk_setting) ==
    IF entry_price <= 0 \/ stop_loss <= 0 \/ entry_price <= stop_loss THEN 0
    ELSE
      LET dynamic_risk_eur == IF risk_setting # NoRiskSetting THEN risk_setting
                              ELSE (total_capital * RISK_PERMILLE) \div 1000
          new_quantity == Max(1, (dynamic_risk_eur * 100)
                                    \div ((entry_price - stop_loss) * EUR_USD_RATE_PCT))
          quantity == IF value_exceeds(entry_price, new_quantity, total_capital, POSITION_CAP_PCT)
                      THEN Max(1, (total_capital * POSITION_CAP_PCT)
                                     \div (entry_price * EUR_USD_RATE_PCT))
                      ELSE new_quantity
      IN  IF entry_price * quantity * EUR_USD_RATE_PCT > available_capital * 100
          THEN 0 ELSE quantity

\* RiskManager.calculate_position_size: the quantity returned
calculate_position_size(entry_price, stop_loss, risk_amount, capital, sizing_method) ==
    IF entry_price <= stop_loss THEN 0
    ELSE
      LET original_risk == IF risk_amount # NoRiskSetting THEN risk_amount
                           ELSE MAX_RISK_PER_TRADE_FIXED
          adjusted_risk == (original_risk * ProtectionStatus.risk_multiplier) \div 100
          quantity == IF sizing_method = "slots"
                      THEN (capital * 100) \div (SLOTS_COUNT * EUR_USD_RATE_PCT * entry_price)
                      ELSE (adjusted_risk * 100)
                              \div ((entry_price - stop_loss) * EUR_USD_RATE_PCT)
      IN  IF quantity <= 0 THEN 0
          ELSE IF value_exceeds(entry_price, quantity, capital, POSITION_CAP_PCT)
          THEN (capital * POSITION_CAP_PCT) \div (entry_price * EUR_USD_RATE_PCT)
          ELSE quantity

\* A signal arrives with the account in some state.
SzInput(entry_price, stop_pct, equity, cash, risk) ==
    /\ sz_entry_price' = entry_price
    /\ sz_stop_loss' = (entry_price * stop_pct) \div 100
    /\ sz_total_equity' = equity
    /\ sz_cash' = cash
    /\ sz_risk' = risk
    /\ sz_quantity' = 0
    /\ sz_path' = "input"

SizeBacktest ==
    /\ sz_path = "input"
    /\ sz_quantity' = backtest_position_size(sz_entry_price, sz_stop_loss,
                                             sz_total_equity, sz_cash)
    /\ sz_path' = "backtest"
    /\ UNCHANGED << sz_entry_price, sz_stop_loss, sz_total_equity, sz_cash, sz_risk >>

SizePlan ==
    /\ sz_path = "input"
    /\ sz_quantity' = dynamic_position_size(sz_entry_price, sz_stop_loss,
                                            sz_total_equity, sz_cash, sz_risk)
    /\ sz_path' = "plan"
    /\ UNCHANGED << sz_entry_price, sz_stop_loss, sz_total_equity, sz_cash, sz_risk >>

\* "return signals" of _apply_dynamic_sizing, and 'stock_signals' of the plan
\* generate_portfolio_signals returns: the list that was passed in, every
\* signal still in it, with the position_size the loop left on it.
stock_signals ==
    IF sz_path = "plan"
    THEN << [entry_price |-> sz_entry_price, stop_loss |-> sz_stop_loss,
             position_size |-> sz_quantity] >>
    ELSE << >>

SizeRiskManager(sizing_method) ==
    /\ sz_path = "input"
    /\ sz_quantity' = calculate_position_size(sz_entry_price, sz_stop_loss, sz_risk,
                                              sz_total_equity, sizing_method)
    /\ sz_path' = "risk_manager"
    /\ UNCHANGED << sz_entry_price, sz_stop_loss, sz_total_equity, sz_cash, sz_risk >>

NextSZ ==
    \/ \E entry_price \in EntryPrices, stop_pct \in StopPercents, equity \in Equities,
          risk \in RiskSettings :
          \E cash \in {equity, equity \div 2} :
             SzInput(entry_price, stop_pct, equity, cash, risk)
             /\ UNCHANGED << bt_vars, rl_vars, db_vars, dd_vars, sd_vars, mh_vars, up_vars, st_vars, mon_vars, fx_vars >>
    \/ SizeBacktest /\ UNCHANGED << bt_vars, rl_vars, db_vars, dd_vars, sd_vars, mh_vars, up_vars, st_vars, mon_vars, fx_vars >>
    \/ SizePlan /\ UNCHANGED << bt_vars, rl_vars, db_vars, dd_vars, sd_vars, mh_vars, up_vars, st_vars, mon_vars, fx_vars >>
    \/ \E sizing_method \in {"risk_based", "slots"} :
          SizeRiskManager(sizing_method) /\ UNCHANGED << bt_vars, rl_vars, db_vars, dd_vars, sd_vars, mh_vars, up_vars, st_vars, mon_vars, fx_vars >>

(***************************************************************************)
(* Sector diversity filter (PortfolioManager)                              *)
(*                                                                         *)
(* A signal or position is [symbol, entry_price, position_size]; for an    *)
(* open trade position_size is the journal's quantity.                     *)
(***************************************************************************)
MaxPlanSignals == 2        \* longest ranked signal list

MaxOpenTrades == 1         \* most open trades in the journal

MAX_SECTOR_CONCENTRATION_PCT == 40

MAX_SYMBOLS_PER_SECTOR == 99

PlanSymbols == {"AAPL", "MSFT", "JPM", "ZZZZ"}

\* _get_sector: the local SECTOR_MAPPING, 'Unknown' for a symbol not in it
get_sector(symbol) ==
    CASE symbol \in {"AAPL", "MSFT"} -> "Technology"
      [] symbol = "JPM" -> "Financials"
      [] OTHER -> "Unknown"

PlanPrice == 100

PlanSizes == {1, 3}

PlanEntries == [symbol : PlanSymbols, entry_price : {PlanPrice}, position_size : PlanSizes]

\* Lists of at most n entries with pairwise different symbols
DistinctLists(n) ==
    { l \in UNION { [1..k -> PlanEntries] : k \in 0..n } :
        \A i, j \in 1..Len(l) : i # j => l[i].symbol # l[j].symbol }

DiversityInit ==
    /\ sd_open = << >>
    /\ sd_signals = << >>
    /\ sd_accepted = << >>
    /\ sd_pc = "idle"

position_value(pos) == pos.entry_price * pos.position_size

RECURSIVE total_value(_)
total_value(positions) ==
    IF positions = << >> THEN 0
    ELSE position_value(Head(positions)) + total_value(Tail(positions))

RECURSIVE sector_value(_, _)
sector_value(positions, sector) ==
    IF positions = << >> THEN 0
    ELSE (IF get_sector(Head(positions).symbol) = sector
          THEN position_value(Head(positions)) ELSE 0)
         + sector_value(Tail(positions), sector)

RECURSIVE sector_count(_, _)
sector_count(positions, sector) ==
    IF positions = << >> THEN 0
    ELSE (IF get_sector(Head(positions).symbol) = sector THEN 1 ELSE 0)
         + sector_count(Tail(positions), sector)

\* check_sector_diversity(new_signal, open_positions)['allowed']
check_sector_diversity(new_signal, open_positions) ==
    IF open_positions = << >> THEN TRUE
    ELSE LET new_total == total_value(open_positions) + position_value(new_signal)
             in_sector == sector_value(open_positions, get_sector(new_signal.symbol))
                          + position_value(new_signal)
         IN  IF new_total = 0 THEN TRUE
             ELSE ~(in_sector * 100 > MAX_SECTOR_CONCENTRATION_PCT * new_total)

\* The loop of apply_sector_diversity_filter: st = [accepted, simulated]
RECURSIVE diversity_loop(_, _, _)
diversity_loop(signals, open_positions, st) ==
    IF signals = << >> THEN st
    ELSE
      LET sig == Head(signals)
          sector == get_sector(sig.symbol)
          total_in_sector == sector_count(st.accepted, sector)
                             + sector_count(open_positions, sector)
          skip == /\ sector # "Unknown"
                  /\ \/ total_in_sector >= MAX_SYMBOLS_PER_SECTOR
                     \/ ~check_sector_diversity(sig, st.simulated)
      IN  diversity_loop(Tail(signals), open_positions,
              IF skip THEN st
              ELSE [accepted |-> Append(st.accepted, sig),
                    simulated |-> Append(st.simulated, sig)])

apply_sector_diversity_filter(signals, open_positions) ==
    IF signals = << >> THEN << >>
    ELSE diversity_loop(signals, open_positions,
                        [accepted |-> << >>, simulated |-> open_positions]).accepted

\* The ranked signals of a Monday and the journal's open trades
PlanInput(signals, open_positions) ==
    /\ sd_pc = "idle"
    /\ sd_signals' = signals
    /\ sd_open' = open_positions
    /\ sd_accepted' = << >>
    /\ sd_pc' = "input"

FilterSignals ==
    /\ sd_pc = "input"
    /\ sd_accepted' = apply_sector_diversity_filter(sd_signals, sd_open)
    /\ sd_pc' = "done"
    /\ UNCHANGED << sd_signals, sd_open >>

\* The plan has been handed to the caller; the next Monday starts afresh.
PlanReturned ==
    /\ sd_pc = "done"
    /\ sd_pc' = "idle"
    /\ sd_signals' = << >>
    /\ sd_open' = << >>
    /\ sd_accepted' = << >>

NextSD ==
    \/ \E signals \in DistinctLists(MaxPlanSignals), open_positions \in DistinctLists(MaxOpenTrades) :
          PlanInput(signals, open_positions)
          /\ UNCHANGED << bt_vars, rl_vars, db_vars, dd_vars, sz_vars, mh_vars, up_vars, st_vars, mon_vars, fx_vars >>
    \/ FilterSignals /\ UNCHANGED << bt_vars, rl_vars, db_vars, dd_vars, sz_vars, mh_vars, up_vars, st_vars, mon_vars, fx_vars >>
    \/ PlanReturned /\ UNCHANGED << bt_vars, rl_vars, db_vars, dd_vars, sz_vars, mh_vars, up_vars, st_vars, mon_vars, fx_vars >>

(***************************************************************************)
(* One position through the weeks of a run                                 *)
(*                                                                         *)
(* The day loop of run_portfolio_backtest as one position sees it, from the *)
(* Tuesday of its entry over enough weeks to reach MAX_HOLD_WEEKS: Monday   *)
(* counts the week, Tuesday to Thursday run check_intraweek_stop and Friday *)
(* runs check_friday_exit on the position's bars.                          *)
(***************************************************************************)
MaxHoldRunWeeks == 10      \* the run covers the days 0 .. 7 * MaxHoldRunWeeks - 1

NoPosition == [symbol |-> "none"]

\* A bar whose low is under the stop of HeldPosition.
DropBar == [open |-> 9600, high |-> 9700, low |-> 9400, close |-> 9500]

HoldBars(d) == IF IsTradingDay(d) THEN {NoBar, FlatBar, DropBar} ELSE {NoBar}

\* The position the Tuesday entry loop opens in week 1 for a signal on A with
\* stop 95.00, at FlatBar's open plus slippage, with the initial capital.
HeldPosition ==
    LET entry_price == (FlatBar.open * (1000 + ENTRY_SLIPPAGE_PERMILLE)) \div 1000
        quantity == capped_quantity(entry_price,
                        risk_quantity(entry_price, 9500, InitialCapital), InitialCapital)
    IN  [symbol |-> "A",
         entry_date |-> 1,
         entry_week |-> 1,
         entry_price |-> entry_price,
         stop_loss |-> 9500,
         quantity |-> quantity,
         risk_amount |-> (InitialCapital * RISK_PERMILLE) \div 1000,
         capital_allocated |-> capital_needed(entry_price, quantity),
         highest_price |-> entry_price,
         trailing_active |-> FALSE]

\* Tuesday of week 1, after the entry loop.
HoldInit ==
    /\ mh_date = 1
    /\ mh_week_count = 1
    /\ mh_position = HeldPosition
    /\ mh_outcome = NoOutcome
    /\ mh_bar = FlatBar
    /\ mh_next_bar = FlatBar

\* get_data_for_date(symbol, current_date) for the position's symbol
hold_frame ==
    (IF mh_bar # NoBar THEN << mh_bar >> ELSE << >>)
    \o (IF mh_next_bar # NoBar THEN << mh_next_bar >> ELSE << >>)

\* current_date += timedelta(days=1)
HoldNextDay ==
    /\ mh_date < 7 * MaxHoldRunWeeks - 1
    /\ mh_date' = mh_date + 1
    /\ mh_bar' = mh_next_bar
    /\ mh_next_bar' \in HoldBars(mh_date + 2)

\* "outcome = check(pos); if outcome: trades.append(outcome); remove(pos)"
HoldCheck(r) ==
    IF r.outcome # NoOutcome
    THEN mh_position' = NoPosition /\ mh_outcome' = r.outcome
    ELSE mh_position' = r.pos /\ mh_outcome' = mh_outcome

\* weekday == 0
HoldMonday ==
    /\ mh_position # NoPosition /\ weekday(mh_date) = 0
    /\ mh_week_count' = mh_week_count + 1
    /\ HoldNextDay
    /\ UNCHANGED << mh_position, mh_outcome >>

\* weekday in [1, 2, 3]
HoldMidweek ==
    /\ mh_position # NoPosition /\ weekday(mh_date) \in {1, 2, 3}
    /\ HoldCheck(intraweek_stop_on(hold_frame, mh_position, mh_date))
    /\ HoldNextDay
    /\ UNCHANGED mh_week_count

\* weekday == 4
HoldFriday ==
    /\ mh_position # NoPosition /\ weekday(mh_date) = 4
    /\ HoldCheck(friday_exit_on(hold_frame, mh_position, mh_date, mh_week_count))
    /\ HoldNextDay
    /\ UNCHANGED mh_week_count

\* weekday in [5, 6]
HoldWeekend ==
    /\ mh_position # NoPosition /\ weekday(mh_date) \in {5, 6}
    /\ HoldNextDay
    /\ UNCHANGED << mh_week_count, mh_position, mh_outcome >>

NextMH ==
    \/ HoldMonday /\ UNCHANGED << bt_vars, rl_vars, db_vars, dd_vars, sz_vars, sd_vars, up_vars, st_vars, mon_vars, fx_vars >>
    \/ HoldMidweek /\ UNCHANGED << bt_vars, rl_vars, db_vars, dd_vars, sz_vars, sd_vars, up_vars, st_vars, mon_vars, fx_vars >>
    \/ HoldFriday /\ UNCHANGED << bt_vars, rl_vars, db_vars, dd_vars, sz_vars, sd_vars, up_vars, st_vars, mon_vars, fx_vars >>
    \/ HoldWeekend /\ UNCHANGED << bt_vars, rl_vars, db_vars, dd_vars, sz_vars, sd_vars, up_vars, st_vars, mon_vars, fx_vars >>

(***************************************************************************)
(* Ingestion cycle (DataUpdater.update_all)                                *)
(*                                                                         *)
(* The watchlist is Watchlist; a batch holds BatchSize symbols under a      *)
(* concurrent plan and one symbol under the free plan.  The token bucket    *)
(* every request goes through is the one of the section above and is left   *)
(* out here.  A task is [step, attempt, slept, last, df, result]: attempt    *)
(* counts the iterations of the retry loop that have started, slept lists   *)
(* the back-off sleeps in seconds, last is what the latest request met.     *)
(***************************************************************************)
NumSymbols == 3                \* symbols in the watchlist
BatchSize == 2                 \* batch_size of the concurrent plan, scaled to the watchlist

MAX_RETRIES == 4
BACKOFF_BASE == 2

Watchlist == 1..NumSymbols

Plans == {"free", "starter"}

\* batch_size by data_provider.plan
batch_size(plan) == IF plan = "free" THEN 1 ELSE BatchSize

\* What a request can meet.  "raised" is an exception that leaves
\* get_historical_data (from the part outside its try block or from
\* wait_for_token); the other outcomes are handled inside it.
FetchOutcomes == {"ok", "invalid", "no_data", "error_status", "timeout", "network", "raised"}

VendorErrors == {"error_status", "timeout", "network"}

\* The frame get_historical_data returns for an outcome it handles.
returned_frame(outcome) ==
    IF outcome = "ok" THEN "valid"
    ELSE IF outcome = "invalid" THEN "invalid"
    ELSE "empty"

NewTask == [step |-> "new", attempt |-> 0, slept |-> << >>, last |-> "none",
            df |-> "none", result |-> "none"]

UpdaterInit ==
    /\ up_pc = "idle"
    /\ up_plan = "free"
    /\ up_next = 1
    /\ up_task = [n \in Watchlist |-> NewTask]
    /\ up_success_count = 0

\* batch = symbols[i:i + batch_size]
batch_at(i, plan) == { n \in Watchlist : i <= n /\ n < i + batch_size(plan) }

\* update_all starts a cycle
UpdateAll(plan) ==
    /\ up_pc = "idle"
    /\ up_pc' = "batch"
    /\ up_plan' = plan
    /\ up_next' = 1
    /\ up_task' = [n \in Watchlist |-> NewTask]
    /\ up_success_count' = 0

\* update_symbol up to the fetch: the date range is computed
DateRange(n, range) ==
    /\ up_pc = "batch" /\ n \in batch_at(up_next, up_plan)
    /\ up_task[n].step = "new"
    /\ up_task' = [up_task EXCEPT ![n] =
          IF range = "up_to_date" THEN [@ EXCEPT !.step = "returned", !.result = "True"]
          ELSE IF range = "error" THEN [@ EXCEPT !.step = "returned", !.result = "False"]
          ELSE [@ EXCEPT !.step = "fetching"]]
    /\ UNCHANGED << up_pc, up_plan, up_next, up_success_count >>

\* wait_time = BACKOFF_BASE ** (attempt + 1)
backoff_wait(attempt) == BACKOFF_BASE ^ (attempt + 1)

\* One iteration of the loop of _fetch_with_retry
fetch_attempt(task, outcome) ==
    IF outcome = "raised"
    THEN LET t1 == [task EXCEPT !.attempt = @ + 1, !.last = outcome,
                                !.slept = Append(@, backoff_wait(task.attempt))]
         IN  IF t1.attempt = MAX_RETRIES
             THEN [t1 EXCEPT !.step = "fetched", !.df = "empty"]
             ELSE t1
    ELSE [task EXCEPT !.attempt = @ + 1, !.last = outcome,
                      !.step = "fetched", !.df = returned_frame(outcome)]

FetchWithRetry(n, outcome) ==
    /\ up_pc = "batch" /\ n \in batch_at(up_next, up_plan)
    /\ up_task[n].step = "fetching"
    /\ up_task' = [up_task EXCEPT ![n] = fetch_attempt(@, outcome)]
    /\ UNCHANGED << up_pc, up_plan, up_next, up_success_count >>

\* update_symbol after the fetch: empty frame, validation, insert
StoreFrame(n, insert_raises) ==
    /\ up_pc = "batch" /\ n \in batch_at(up_next, up_plan)
    /\ up_task[n].step = "fetched"
    /\ up_task' = [up_task EXCEPT ![n] =
          [@ EXCEPT !.step = "returned",
                    !.result = IF up_task[n].df = "valid" /\ ~insert_raises
                               THEN "True" ELSE "False"]]
    /\ UNCHANGED << up_pc, up_plan, up_next, up_success_count >>

\* Mutant of batch_success: every symbol of the batch is counted.
batch_success_all(batch) == Cardinality(batch)

\* The symbols of a finished batch that count towards success_count
batch_success(batch) == Cardinality({ n \in batch : up_task[n].result = "True" })

\* Every update_symbol of the batch has returned: count and go on.  Of a
\* finished call only its result is left.
BatchDone ==
    /\ up_pc = "batch"
    /\ \A n \in batch_at(up_next, up_plan) : up_task[n].step = "returned"
    /\ up_success_count' = up_success_count + batch_success(batch_at(up_next, up_plan))
    /\ up_task' = [n \in Watchlist |->
                     IF n \in batch_at(up_next, up_plan)
                     THEN [NewTask EXCEPT !.step = "returned", !.result = up_task[n].result]
                     ELSE up_task[n]]
    /\ up_next' = up_next + batch_size(up_plan)
    /\ up_pc' = IF up_next + batch_size(up_plan) > NumSymbols THEN "done" ELSE "batch"
    /\ UNCHANGED up_plan

NextUP ==
    \/ \E plan \in Plans : UpdateAll(plan) /\ UNCHANGED << bt_vars, rl_vars, db_vars, dd_vars, sz_vars, sd_vars, mh_vars, st_vars, mon_vars, fx_vars >>
    \/ \E n \in Watchlist, range \in {"up_to_date", "error", "fetch"} :
          DateRange(n, range) /\ UNCHANGED << bt_vars, rl_vars, db_vars, dd_vars, sz_vars, sd_vars, mh_vars, st_vars, mon_vars, fx_vars >>
    \/ \E n \in Watchlist, outcome \in FetchOutcomes :
          FetchWithRetry(n, outcome) /\ UNCHANGED << bt_vars, rl_vars, db_vars, dd_vars, sz_vars, sd_vars, mh_vars, st_vars, mon_vars, fx_vars >>
    \/ \E n \in Watchlist, insert_raises \in BOOLEAN :
          StoreFrame(n, insert_raises) /\ UNCHANGED << bt_vars, rl_vars, db_vars, dd_vars, sz_vars, sd_vars, mh_vars, st_vars, mon_vars, fx_vars >>
    \/ BatchDone /\ UNCHANGED << bt_vars, rl_vars, db_vars, dd_vars, sz_vars, sd_vars, mh_vars, st_vars, mon_vars, fx_vars >>

(***************************************************************************)
(* Market store connections                                                *)
(*                                                                         *)
(* The components of one process construct MarketDatabase objects, each    *)
(* with its own duckdb connection; another process (the dashboard) may     *)
(* hold a store file, and duckdb.connect then raises.  The price monitor   *)
(* reads through PriceMonitor._get_market_data, which connects on demand.  *)
(***************************************************************************)
MaxConstructed == 3            \* MarketDatabase objects constructed in a run

Components == {"portfolio_manager", "regime_detector", "strategy", "backtest"}

\* db_path or config.get_env("DUCKDB_PATH", "./data/market_data.duckdb")
DefaultPath == "market_data.duckdb"

NoPath == "None"

PathArgs == {NoPath, "test.duckdb"}

resolved_path(db_path) == IF db_path = NoPath THEN DefaultPath ELSE db_path

NoDb == [path |-> "none", instance |-> 0]

NoCall == [by |-> "none", path |-> "none", held |-> FALSE, raised |-> FALSE]

\* max_retries = 3; retry_delay = 1.0 (seconds)
max_retries == 3

retry_delay == 1

\* What str(e).lower() of a failed duckdb.connect can read when another
\* process holds the file: the Windows wording, and the POSIX wording.
ErrorTexts == {"the process cannot access the file because it is being used by another process",
               "could not set lock on file: conflicting lock is held"}

\* "already open" in str(e).lower() or "being used" in str(e).lower()
is_lock_text(text) ==
    text = "the process cannot access the file because it is being used by another process"

IdleMonitor == [pc |-> "idle", attempt |-> 0, slept |-> << >>, met_lock |-> FALSE,
                result |-> "none"]

StoreAccessInit ==
    /\ st_db = [c \in Components |-> NoDb]
    /\ st_created = 0
    /\ st_held = {}
    /\ st_construct = NoCall
    /\ st_mon = IdleMonitor

\* The files this process has a connection to.
connected_paths == { st_db[c].path : c \in { k \in Components : st_db[k] # NoDb } }

\* MarketDatabase.__init__(db_path), called by component c: duckdb.connect on
\* the resolved path; a new object with a new connection when it succeeds, the
\* exception of duckdb.connect when another process holds the file.
Construct(c, db_path) ==
    LET path == resolved_path(db_path)
    IN  /\ st_db[c] = NoDb
        /\ st_created < MaxConstructed
        /\ IF path \in st_held
           THEN /\ st_construct' = [by |-> c, path |-> path, held |-> TRUE, raised |-> TRUE]
                /\ UNCHANGED << st_db, st_created >>
           ELSE /\ st_db' = [st_db EXCEPT ![c] = [path |-> path, instance |-> st_created + 1]]
                /\ st_created' = st_created + 1
                /\ st_construct' = [by |-> c, path |-> path, held |-> FALSE, raised |-> FALSE]
        /\ UNCHANGED << st_held, st_mon >>

\* MarketDatabase.close (or __exit__): the object's connection is closed.
Close(c) ==
    /\ st_db[c] # NoDb
    /\ st_db' = [st_db EXCEPT ![c] = NoDb]
    /\ UNCHANGED << st_created, st_held, st_construct, st_mon >>

\* Another process opens a store file no connection of this process is on.
OtherOpens(path) ==
    /\ path \notin st_held
    /\ path \notin connected_paths
    /\ st_held' = st_held \cup {path}
    /\ UNCHANGED << st_db, st_created, st_construct, st_mon >>

OtherCloses(path) ==
    /\ path \in st_held
    /\ st_held' = st_held \ {path}
    /\ UNCHANGED << st_db, st_created, st_construct, st_mon >>

\* PriceMonitor._get_market_data is called for a symbol.
MonitorStart ==
    /\ st_mon.pc = "idle"
    /\ st_mon' = [IdleMonitor EXCEPT !.pc = "connect", !.met_lock = TRUE]
    /\ UNCHANGED << st_db, st_created, st_held, st_construct >>

\* One iteration of "for attempt in range(max_retries)": connect, query and
\* close; on a lock error sleep and go round again, or give up at the last
\* attempt; on any other error return the empty frame at once.
MonitorAttempt(text, query_fails) ==
    /\ st_mon.pc = "connect"
    /\ st_mon' =
         IF DefaultPath \notin st_held
         THEN [st_mon EXCEPT !.pc = "done", !.met_lock = FALSE,
                             !.result = IF query_fails THEN "empty" ELSE "frame"]
         ELSE IF is_lock_text(text)
         THEN IF st_mon.attempt < max_retries - 1
              THEN [st_mon EXCEPT !.attempt = @ + 1, !.slept = Append(@, retry_delay)]
              ELSE [st_mon EXCEPT !.pc = "done", !.result = "empty"]
         ELSE [st_mon EXCEPT !.pc = "done", !.result = "empty"]
    /\ UNCHANGED << st_db, st_created, st_held, st_construct >>

\* The caller took the frame.
MonitorReturn ==
    /\ st_mon.pc = "done"
    /\ st_mon' = IdleMonitor
    /\ UNCHANGED << st_db, st_created, st_held, st_construct >>

NextST ==
    \/ \E c \in Components, db_path \in PathArgs : Construct(c, db_path) /\ UNCHANGED << bt_vars, rl_vars, db_vars, dd_vars, sz_vars, sd_vars, mh_vars, up_vars, mon_vars, fx_vars >>
    \/ \E c \in Components : Close(c) /\ UNCHANGED << bt_vars, rl_vars, db_vars, dd_vars, sz_vars, sd_vars, mh_vars, up_vars, mon_vars, fx_vars >>
    \/ \E path \in {DefaultPath, "test.duckdb"} : OtherOpens(path) /\ UNCHANGED << bt_vars, rl_vars, db_vars, dd_vars, sz_vars, sd_vars, mh_vars, up_vars, mon_vars, fx_vars >>
    \/ \E path \in {DefaultPath, "test.duckdb"} : OtherCloses(path) /\ UNCHANGED << bt_vars, rl_vars, db_vars, dd_vars, sz_vars, sd_vars, mh_vars, up_vars, mon_vars, fx_vars >>
    \/ MonitorStart /\ UNCHANGED << bt_vars, rl_vars, db_vars, dd_vars, sz_vars, sd_vars, mh_vars, up_vars, mon_vars, fx_vars >>
    \/ \E text \in ErrorTexts, query_fails \in BOOLEAN :
          MonitorAttempt(text, query_fails) /\ UNCHANGED << bt_vars, rl_vars, db_vars, dd_vars, sz_vars, sd_vars, mh_vars, up_vars, mon_vars, fx_vars >>
    \/ MonitorReturn /\ UNCHANGED << bt_vars, rl_vars, db_vars, dd_vars, sz_vars, sd_vars, mh_vars, up_vars, mon_vars, fx_vars >>

(***************************************************************************)
(* Live price monitor (PriceMonitor.monitor_positions)                     *)
(*                                                                         *)
(* One symbol with at most one open trade.  Prices are whole dollars; the  *)
(* ATR takes even values so that 1.5 x ATR is whole.  A saturating counter *)
(* per alert key records the alerts sent and the cycles that saw the level *)
(* reached since the symbol's keys were last cleared.                      *)
(***************************************************************************)
NoPrice == 0

MonitorPrices == {94, 100, 102, 104, 107, 113}

AtrChoices == {0, 2, 4}

AlertKeys == {"stop_loss", "target_reached", "entry_reached",
              "tp1_partial_exit", "tp2_full_exit"}

\* add_trade: the row of a new open position
NewTrade == [status |-> "open", entry_price |-> 100, stop_loss |-> 95, target_price |-> 113]

NoTrade == [status |-> "none", entry_price |-> 0, stop_loss |-> 0, target_price |-> 0]

NoneSent == [k \in AlertKeys |-> 0]

Counted(counts, key) == [counts EXCEPT ![key] = Min(2, @ + 1)]

MonitorInit ==
    /\ mon_trade = NoTrade
    /\ mon_alerts = {}
    /\ mon_close = NoPrice
    /\ mon_highest = NoPrice
    /\ mon_sent = NoneSent
    /\ mon_observed = NoneSent

\* PriceMonitor.check_price_levels: the level_type reached, "none" otherwise
check_price_levels(current_price, entry_price, stop_loss, target_price) ==
    IF current_price <= stop_loss THEN "stop_loss"
    ELSE IF target_price # NoPrice /\ current_price >= target_price THEN "target_reached"
    ELSE IF (IF current_price >= entry_price THEN current_price - entry_price
             ELSE entry_price - current_price) * 100 < entry_price
    THEN "entry_reached"
    ELSE "none"

\* PriceMonitor.check_partial_exit_levels: the action, "none" otherwise
\* (position.get('tp1_hit', False) is False: the journal has no such column)
check_partial_exit_levels(entry_price, current_price, atr) ==
    IF atr <= 0 THEN "none"
    ELSE IF current_price >= entry_price + 3 * atr THEN "tp2_full_exit"
    ELSE IF 2 * current_price >= 2 * entry_price + 3 * atr THEN "tp1_partial_exit"
    ELSE "none"

\* PriceMonitor.calculate_trailing_stop: the new stop, NoPrice for None;
\* current_stop is user_db.get_position_stop(symbol) at the time of the call
calculate_trailing_stop(entry_price, current_price, atr, highest_price, current_stop) ==
    IF atr <= 0 THEN NoPrice
    ELSE IF highest_price - entry_price < atr THEN NoPrice
    ELSE LET trail == Max(highest_price - (3 * atr) \div 2, entry_price)
             new_stop == IF current_stop # NoPrice THEN Max(trail, current_stop) ELSE trail
         IN  IF new_stop >= current_price THEN NoPrice
             ELSE IF current_stop # NoPrice /\ (new_stop - current_stop) * 100 < current_stop
             THEN NoPrice
             ELSE new_stop

\* Mutant of was_price_alert_sent: the key is never found.
was_price_alert_sent_never(alerts, level_type) == FALSE

\* UserDatabase.was_price_alert_sent
was_price_alert_sent(alerts, level_type) == level_type \in alerts

\* UserDatabase.set_price_alert_sent
set_price_alert_sent(alerts, level_type) == alerts \cup {level_type}

\* UserDatabase.close_position: the row's status by the reason's wording
close_position(trade, reason) ==
    [trade EXCEPT !.status = IF reason \in {"Target reached", "TP2 full target reached"}
                             THEN "target_reached"
                             ELSE IF reason = "Stop loss hit" THEN "stopped"
                             ELSE "closed"]

\* UserDatabase.update_position_stop: stop_loss and current_stop_loss are set
update_position_stop(trade, new_stop) == [trade EXCEPT !.stop_loss = new_stop]

\* First part of the loop body: the price level check and its alert.
\* st = [trade, alerts, sent, observed, closed]
level_step(st, current_price, telegram_enabled) ==
    LET level_type == check_price_levels(current_price, st.trade.entry_price,
                                         st.trade.stop_loss, st.trade.target_price)
        send == /\ ~was_price_alert_sent(st.alerts, level_type)
                /\ telegram_enabled
        alerted == IF send
                   THEN [st EXCEPT !.alerts = set_price_alert_sent(st.alerts, level_type),
                                   !.sent = Counted(st.sent, level_type)]
                   ELSE st
    IN  IF level_type = "none" THEN st
        ELSE IF level_type = "stop_loss"
        THEN [alerted EXCEPT !.trade = close_position(st.trade, "Stop loss hit"),
                             !.alerts = {}, !.closed = TRUE]
        ELSE IF level_type = "target_reached"
        THEN [alerted EXCEPT !.trade = close_position(st.trade, "Target reached"),
                             !.alerts = {}, !.closed = TRUE]
        ELSE [alerted EXCEPT !.observed = Counted(st.observed, level_type)]

\* Second part: TP1 / TP2, when the store has bars and the ATR is positive.
partial_exit_step(st, current_price, atr, telegram_enabled) ==
    LET level_type == check_partial_exit_levels(st.trade.entry_price, current_price, atr)
        seen == [st EXCEPT !.observed = Counted(st.observed, level_type)]
        alerted == [seen EXCEPT !.alerts = set_price_alert_sent(st.alerts, level_type),
                                !.sent = IF telegram_enabled
                                         THEN Counted(st.sent, level_type) ELSE st.sent]
    IN  IF st.closed \/ mon_close = NoPrice \/ level_type = "none" THEN st
        ELSE IF was_price_alert_sent(st.alerts, level_type) THEN seen
        ELSE IF level_type = "tp1_partial_exit"
        THEN [alerted EXCEPT !.trade = update_position_stop(st.trade, st.trade.entry_price)]
        ELSE [alerted EXCEPT !.trade = close_position(st.trade, "TP2 full target reached"),
                             !.alerts = {}, !.closed = TRUE]

\* Third part: the trailing stop.  current_stop is the stop of the position
\* dict read at the start of the cycle; calculate_trailing_stop reads the
\* stop stored now.
trailing_step(st, current_price, atr, current_stop) ==
    LET highest_price == IF mon_highest = NoPrice THEN current_price ELSE mon_highest
        new_stop == calculate_trailing_stop(st.trade.entry_price, current_price, atr,
                                            highest_price, st.trade.stop_loss)
    IN  IF st.closed \/ mon_close = NoPrice \/ atr <= 0 THEN st
        ELSE IF new_stop # NoPrice /\ new_stop > current_stop
        THEN [st EXCEPT !.trade = update_position_stop(st.trade, new_stop)]
        ELSE st

\* A trade is entered in the journal (UserDatabase.add_trade).
OpenTrade ==
    /\ mon_trade.status # "open"
    /\ mon_trade' = NewTrade
    /\ mon_highest' = NoPrice
    /\ UNCHANGED << mon_alerts, mon_close, mon_sent, mon_observed >>

\* The ingestion stores a new daily bar of the symbol.
NewBar(close) ==
    /\ mon_close' = close
    /\ mon_highest' = IF mon_trade.status = "open" THEN Max(mon_highest, close)
                      ELSE mon_highest
    /\ UNCHANGED << mon_trade, mon_alerts, mon_sent, mon_observed >>

\* One cycle of monitor_positions for the position: snapshot is the vendor's
\* last price (NoPrice when there is none), atr the indicator's latest value.
MonitorCycle(snapshot, atr, telegram_enabled) ==
    /\ mon_trade.status = "open"
    /\ snapshot # NoPrice \/ mon_close # NoPrice
    /\ LET current_price == IF snapshot # NoPrice THEN snapshot ELSE mon_close
           st0 == [trade |-> mon_trade, alerts |-> mon_alerts, sent |-> mon_sent,
                   observed |-> mon_observed, closed |-> FALSE]
           st1 == level_step(st0, current_price, telegram_enabled)
           st2 == partial_exit_step(st1, current_price, atr, telegram_enabled)
           st3 == trailing_step(st2, current_price, atr, mon_trade.stop_loss)
       IN  /\ mon_trade' = st3.trade
           /\ mon_alerts' = st3.alerts
           /\ mon_sent' = IF st3.closed THEN NoneSent ELSE st3.sent
           /\ mon_observed' = IF st3.closed THEN NoneSent ELSE st3.observed
    /\ UNCHANGED << mon_close, mon_highest >>

NextMON ==
    \/ OpenTrade /\ UNCHANGED << bt_vars, rl_vars, db_vars, dd_vars, sz_vars, sd_vars, mh_vars, up_vars, st_vars, fx_vars >>
    \/ \E close \in MonitorPrices : NewBar(close) /\ UNCHANGED << bt_vars, rl_vars, db_vars, dd_vars, sz_vars, sd_vars, mh_vars, up_vars, st_vars, fx_vars >>
    \/ \E snapshot \in MonitorPrices \cup {NoPrice}, atr \in AtrChoices,
          telegram_enabled \in BOOLEAN :
          MonitorCycle(snapshot, atr, telegram_enabled) /\ UNCHANGED << bt_vars, rl_vars, db_vars, dd_vars, sz_vars, sd_vars, mh_vars, up_vars, st_vars, fx_vars >>

(***************************************************************************)
(* Exchange rate (dss/utils/currency.py)                                   *)
(*                                                                         *)
(* Rates are in hundredths (92 is 0.92); ages are whole hours.             *)
(***************************************************************************)
CACHE_HOURS == 24

hardcoded_rate == 92

\* the oldest age the model tells apart
MaxAgeHours == 36

HourStep == 12

NoRate == 0

ApiRates == {90, 95}

ConfigRates == {NoRate, 91}

ManualRates == {NoRate, 93}

EmptyCache == [rate |-> NoRate, age |-> 0]

NoCallYet == [returned |-> NoRate, fetch_failed |-> FALSE, cached |-> {}]

CurrencyInit ==
    /\ fx_memory = EmptyCache
    /\ fx_stored = EmptyCache
    /\ fx_manual = NoRate
    /\ fx_call = NoCallYet

\* _get_cached_rate: the stored rate when it is younger than CACHE_HOURS,
\* EmptyCache for None
get_cached_rate(has_user_db) ==
    IF has_user_db /\ fx_stored.rate # NoRate /\ fx_stored.age < CACHE_HOURS
    THEN fx_stored
    ELSE EmptyCache

\* get_exchange_rate step 4-6: the fetch was not made or failed
fallback_rate(has_user_db, config_rate) ==
    IF fx_memory.rate # NoRate THEN fx_memory.rate
    ELSE IF get_cached_rate(has_user_db) # EmptyCache THEN get_cached_rate(has_user_db).rate
    ELSE IF config_rate # NoRate THEN config_rate
    ELSE hardcoded_rate

\* get_exchange_rate: [returned, memory, stored, fetched] where fetched tells
\* whether the API was called
exchange_rate(has_user_db, config_rate, force_refresh, api_rate) ==
    LET same(r, api) == [returned |-> r, memory |-> fx_memory, stored |-> fx_stored,
                         fetched |-> api]
        cached == get_cached_rate(has_user_db)
    IN  IF has_user_db /\ fx_manual # NoRate THEN same(fx_manual, FALSE)
        ELSE IF ~force_refresh /\ fx_memory.rate # NoRate /\ fx_memory.age < CACHE_HOURS
        THEN same(fx_memory.rate, FALSE)
        ELSE IF ~force_refresh /\ fx_memory.rate = NoRate /\ cached # EmptyCache
        THEN [returned |-> cached.rate, memory |-> cached, stored |-> fx_stored,
              fetched |-> FALSE]
        ELSE IF api_rate # NoRate
        THEN [returned |-> api_rate,
              memory |-> [rate |-> api_rate, age |-> 0],
              stored |-> IF has_user_db THEN [rate |-> api_rate, age |-> 0] ELSE fx_stored,
              fetched |-> TRUE]
        ELSE same(fallback_rate(has_user_db, config_rate), TRUE)

\* A caller asks for the rate; api_rate is what the API returns if it is
\* called, NoRate when the request fails.
GetExchangeRate(has_user_db, config_rate, force_refresh, api_rate) ==
    LET r == exchange_rate(has_user_db, config_rate, force_refresh, api_rate)
    IN  /\ fx_memory' = r.memory
        /\ fx_stored' = r.stored
        /\ fx_call' = [returned |-> r.returned,
                       fetch_failed |-> r.fetched /\ api_rate = NoRate,
                       cached |-> ({fx_memory.rate} \cup
                                   (IF has_user_db THEN {fx_stored.rate} ELSE {}))
                                  \ {NoRate}]
        /\ UNCHANGED fx_manual

\* Time passes: both timestamps age.
HoursPass ==
    /\ fx_memory.rate # NoRate \/ fx_stored.rate # NoRate
    /\ fx_memory' = IF fx_memory.rate = NoRate THEN fx_memory
                    ELSE [fx_memory EXCEPT !.age = Min(MaxAgeHours, @ + HourStep)]
    /\ fx_stored' = IF fx_stored.rate = NoRate THEN fx_stored
                    ELSE [fx_stored EXCEPT !.age = Min(MaxAgeHours, @ + HourStep)]
    /\ UNCHANGED << fx_manual, fx_call >>

\* The process ends and a new one starts: the module-level cache is empty.
ProcessRestart ==
    /\ fx_memory # EmptyCache
    /\ fx_memory' = EmptyCache
    /\ UNCHANGED << fx_stored, fx_manual, fx_call >>

\* The user sets or removes the manual rate in the settings.
SetManualRate(rate) ==
    /\ rate # fx_manual
    /\ fx_manual' = rate
    /\ UNCHANGED << fx_memory, fx_stored, fx_call >>

NextFX ==
    \/ \E has_user_db, force_refresh \in BOOLEAN, config_rate \in ConfigRates,
          api_rate \in ApiRates \cup {NoRate} :
          GetExchangeRate(has_user_db, config_rate, force_refresh, api_rate)
              /\ UNCHANGED << bt_vars, rl_vars, db_vars, dd_vars, sz_vars, sd_vars, mh_vars, up_vars, st_vars, mon_vars >>
    \/ HoursPass /\ UNCHANGED << bt_vars, rl_vars, db_vars, dd_vars, sz_vars, sd_vars, mh_vars, up_vars, st_vars, mon_vars >>
    \/ ProcessRestart /\ UNCHANGED << bt_vars, rl_vars, db_vars, dd_vars, sz_vars, sd_vars, mh_vars, up_vars, st_vars, mon_vars >>
    \/ \E rate \in ManualRates : SetManualRate(rate) /\ UNCHANGED << bt_vars, rl_vars, db_vars, dd_vars, sz_vars, sd_vars, mh_vars, up_vars, st_vars, mon_vars >>

InitRL == ParkedBT /\ BucketInit /\ StoreInit /\ ProtectionInit /\ SizingInit /\ DiversityInit /\ HoldInit /\ UpdaterInit /\ StoreAccessInit /\ MonitorInit /\ CurrencyInit

SpecRL == InitRL /\ [][NextRL]_vars

\* The event loop runs every task that is ready, and the clock advances: a
\* task that can take the lock, resume with it or wake from its sleep does so,
\* and time does not stop.
FairRL ==
    /\ WF_vars(RlTick /\ UNCHANGED << bt_vars, db_vars, dd_vars, sz_vars, sd_vars, mh_vars, up_vars, st_vars, mon_vars, fx_vars >>)
    /\ \A t \in Tasks :
          /\ WF_vars(RlAcquire(t) /\ UNCHANGED << bt_vars, db_vars, dd_vars, sz_vars, sd_vars, mh_vars, up_vars, st_vars, mon_vars, fx_vars >>)
          /\ WF_vars(RlGranted(t) /\ UNCHANGED << bt_vars, db_vars, dd_vars, sz_vars, sd_vars, mh_vars, up_vars, st_vars, mon_vars, fx_vars >>)
          /\ WF_vars(RlWake(t) /\ UNCHANGED << bt_vars, db_vars, dd_vars, sz_vars, sd_vars, mh_vars, up_vars, st_vars, mon_vars, fx_vars >>)

SpecRLF == SpecRL /\ FairRL

InitBT == BacktestInit /\ BucketInit /\ StoreInit /\ ProtectionInit /\ SizingInit /\ DiversityInit /\ HoldInit /\ UpdaterInit /\ StoreAccessInit /\ MonitorInit /\ CurrencyInit

SpecBT == InitBT /\ [][NextBT]_vars

\* The run with the default configuration (protection on, cash mode, exit).
InitBA == InitBT /\ bt_cfg.bear_market_exit_positions

SpecBA == InitBA /\ [][NextBA]_vars

InitDB == ParkedBT /\ BucketInit /\ StoreInit /\ ProtectionInit /\ SizingInit /\ DiversityInit /\ HoldInit /\ UpdaterInit /\ StoreAccessInit /\ MonitorInit /\ CurrencyInit

SpecDB == InitDB /\ [][NextDB]_vars

InitDD == ParkedBT /\ BucketInit /\ StoreInit /\ ProtectionInit /\ SizingInit /\ DiversityInit /\ HoldInit /\ UpdaterInit /\ StoreAccessInit /\ MonitorInit /\ CurrencyInit

SpecDD == InitDD /\ [][NextDD]_vars

InitSZ == ParkedBT /\ BucketInit /\ StoreInit /\ ProtectionInit /\ SizingInit /\ DiversityInit /\ HoldInit /\ UpdaterInit /\ StoreAccessInit /\ MonitorInit /\ CurrencyInit

SpecSZ == InitSZ /\ [][NextSZ]_vars

InitSD == ParkedBT /\ BucketInit /\ StoreInit /\ ProtectionInit /\ SizingInit /\ DiversityInit /\ HoldInit /\ UpdaterInit /\ StoreAccessInit /\ MonitorInit /\ CurrencyInit

SpecSD == InitSD /\ [][NextSD]_vars

InitMH == ParkedBT /\ BucketInit /\ StoreInit /\ ProtectionInit /\ SizingInit /\ DiversityInit /\ HoldInit /\ UpdaterInit /\ StoreAccessInit /\ MonitorInit /\ CurrencyInit

SpecMH == InitMH /\ [][NextMH]_vars

InitUP == ParkedBT /\ BucketInit /\ StoreInit /\ ProtectionInit /\ SizingInit /\ DiversityInit /\ HoldInit /\ UpdaterInit /\ StoreAccessInit /\ MonitorInit /\ CurrencyInit

SpecUP == InitUP /\ [][NextUP]_vars

InitST == ParkedBT /\ BucketInit /\ StoreInit /\ ProtectionInit /\ SizingInit /\ DiversityInit /\ HoldInit /\ UpdaterInit /\ StoreAccessInit /\ MonitorInit /\ CurrencyInit

SpecST == InitST /\ [][NextST]_vars

InitMON == ParkedBT /\ BucketInit /\ StoreInit /\ ProtectionInit /\ SizingInit /\ DiversityInit /\ HoldInit /\ UpdaterInit /\ StoreAccessInit /\ MonitorInit /\ CurrencyInit

SpecMON == InitMON /\ [][NextMON]_vars

InitFX == ParkedBT /\ BucketInit /\ StoreInit /\ ProtectionInit /\ SizingInit /\ DiversityInit /\ HoldInit /\ UpdaterInit /\ StoreAccessInit /\ MonitorInit /\ CurrencyInit

SpecFX == InitFX /\ [][NextFX]_vars

(***************************************************************************)
(* Token bucket: claims                                                    *)
(***************************************************************************)
\* C4: over any interval of T seconds at most capacity + refill_rate * T requests
\* are sent.  Equivalently, an ideal bucket of that capacity and rate, charged
\* one token for every request sent, never runs below empty.
C4_RequestRateBounded == rl_credit >= 0

\* C4 witness: two tasks contend for an exhausted bucket: one sleeps inside
\* wait_for_token while the other queues on the lock, after requests were sent.
C4_Witness ==
    \E t, u \in Tasks :
        /\ rl_task[t].step = "sleeping"
        /\ rl_task[u].step = "queued"
        /\ rl_credit < TokenUnit

\* C5: every request sent consumes exactly one token: a fetch that has returned
\* took as many tokens as it sent requests.
C5_OneTokenPerRequest ==
    \A t \in Tasks : rl_task[t].step = "done" => rl_task[t].taken = rl_task[t].sent

\* C25: with refill_rate > 0 every call of wait_for_token returns, having taken
\* its token: a task that has called it, whether it finds the bucket empty or
\* the lock held by a sleeping task, is eventually past the call with one
\* more token taken.
C25_WaitForTokenReturns ==
    \A t \in Tasks : \A k \in 0..2 :
        (rl_task[t].step = "acquire" /\ rl_task[t].taken = k)
            ~> (rl_task[t].taken = k + 1)

\* C25 witness: a task that queued on the lock while another slept for its
\* token has been handed the lock; the sleeper has returned with its token and
\* the bucket is still short of one token.
C25_Witness ==
    /\ refill_rate > 0
    /\ \E t, u \in Tasks :
          /\ rl_task[u].step = "granted"
          /\ rl_task[t].step = "response" /\ rl_task[t].taken >= 1
          /\ rl_tokens < TokenUnit

(***************************************************************************)
(* Backtest: claims                                                        *)
(***************************************************************************)
SamePosition(p, q) == p.symbol = q.symbol /\ p.entry_date = q.entry_date

\* Position p's stop is at or above the low of the row a check of today reads.
StopHit(p) ==
    LET df == get_data_for_date(p.symbol)
    IN  ~read_fails(p.symbol) /\ df # << >> /\ df[1].low <= p.stop_loss

OpenedInStep ==
    \E j \in 1..Len(current_positions') :
        \A i \in 1..Len(current_positions) :
            ~SamePosition(current_positions[i], current_positions'[j])

\* C1: the stop_loss of an open position never decreases: in every step, a
\* position that is open before and after the step has a stop_loss at least as
\* high as before.
C1_StopNeverLowered ==
    [][ \A i \in 1..Len(current_positions), j \in 1..Len(current_positions') :
          SamePosition(current_positions[i], current_positions'[j])
            => current_positions'[j].stop_loss >= current_positions[i].stop_loss ]_vars

\* C1 witness: an open position whose stop was raised by the trailing logic
\* above every stop a signal can carry, on a day after its entry.
C1_Witness ==
    \E i \in 1..Len(current_positions) :
        /\ current_positions[i].trailing_active
        /\ \A s \in StopChoices : current_positions[i].stop_loss > s
        /\ current_date > current_positions[i].entry_date + 1

\* C2: on a Tuesday the phases run in the order (a) carry-over stop check,
\* (b) entries, (c) stop re-check: entries start only after phase (a) left no
\* carry-over position with its stop hit by Tuesday's bar, positions are opened
\* only in phase (b), phase (c) follows (b) and leaves no open position with its
\* stop hit, and Tuesday ends only after phase (c).
C2_TuesdayPhaseOrder ==
    [][ /\ bt_pc' = "tue_b" =>
              /\ bt_pc = "day" /\ weekday(current_date) = 1
              /\ current_date' = current_date
              /\ \A j \in 1..Len(current_positions') : ~StopHit(current_positions'[j])
        /\ OpenedInStep =>
              /\ bt_pc = "tue_b" /\ bt_pc' = "tue_c" /\ current_date' = current_date
        /\ bt_pc' = "tue_c" => bt_pc = "tue_b"
        /\ bt_pc = "tue_c" =>
              /\ current_date' = current_date + 1
              /\ \A j \in 1..Len(current_positions') : ~StopHit(current_positions'[j])
        /\ (weekday(current_date) = 1 /\ current_date' # current_date) => bt_pc = "tue_c"
      ]_vars

\* C2 witness: a Tuesday, after the entries, on which a carry-over position was
\* stopped out and a position opened today fills the last slot.
C2_Witness ==
    /\ bt_pc = "tue_c"
    /\ \E t \in 1..Len(trades) :
          trades[t].exit_date = current_date /\ trades[t].entry_date < current_date
    /\ \E i \in 1..Len(current_positions) : current_positions[i].entry_date = current_date
    /\ Len(current_positions) = effective_max_slots

\* C3: the entries of a Tuesday open at most max(0, effective_max_slots - open
\* positions after the carry-over check) positions, so they never raise the
\* number of open positions above effective_max_slots; no other step opens one.
C3_EntriesWithinSlots ==
    [][ /\ bt_pc = "tue_b" =>
              /\ Len(current_positions') - Len(current_positions)
                    <= Max(0, effective_max_slots - Len(current_positions))
              /\ Len(current_positions') <= Max(effective_max_slots, Len(current_positions))
        /\ Len(current_positions') > Len(current_positions) => bt_pc = "tue_b"
      ]_vars

\* C3 witness: after a Tuesday's entries one carried position and one position
\* opened today together fill the week's slots.
C3_Witness ==
    /\ bt_pc = "tue_c"
    /\ Len(current_positions) = effective_max_slots
    /\ \E i \in 1..Len(current_positions) : current_positions[i].entry_date = current_date
    /\ \E i \in 1..Len(current_positions) : current_positions[i].entry_date < current_date

\* The week's Monday saw a confirmed bear market under the cash mode.
BearCashWeek(regime) ==
    /\ bt_cfg.bear_market_protection
    /\ bt_cfg.bear_market_mode = "cash"
    /\ regime.bear_market

\* C13: when Monday finds the benchmark below both moving averages and the
\* protection is enabled in cash mode, no step of the week that follows opens a
\* position.
C13_BearCashNoEntries ==
    [][ OpenedInStep => ~BearCashWeek(week_regime') ]_vars

\* C13 witness: Tuesday's entries are about to run on a plan that holds a
\* signal whose symbol has a bar today, in a week whose Monday passed the ADX
\* filter and switched to cash mode.
C13_Witness ==
    /\ bt_pc = "tue_b"
    /\ BearCashWeek(week_regime)
    /\ week_regime.adx >= ADX_SKIP
    /\ pending_signals # << >>
    /\ has_row(bars[pending_signals[1].symbol])
    /\ current_positions = << >>

\* The outcomes a step appended to trades.
NewTrades == { trades'[t] : t \in (Len(trades) + 1)..Len(trades') }

\* C14: on a Monday that finds the benchmark below both moving averages, with
\* the protection and the exit of positions enabled, every position open at the
\* start of the day is closed in that day's step with reason bear_market_exit,
\* priced at the close of the previous Friday.
C14_BearExitAtFridayClose ==
    [][ ( /\ bt_pc = "day" /\ weekday(current_date) = 0
          /\ week_regime'.bear_market
          /\ bt_cfg.bear_market_protection /\ bt_cfg.bear_market_exit_positions )
        => /\ current_positions' = << >>
           /\ \A i \in 1..Len(current_positions) :
                 create_outcome(current_positions[i], current_date,
                                friday_close[current_positions[i].symbol],
                                "bear_market_exit") \in NewTrades
      ]_vars

\* C15: when Monday's ADX is below 15, no step of the week that follows opens
\* a position, whatever the plan held.
C15_ChoppyWeekNoEntries ==
    [][ OpenedInStep => ~(week_regime'.adx < ADX_SKIP) ]_vars

\* C15 witness: the second week's Monday saw an ADX below 15; on its Tuesday,
\* after the entries, nothing was opened today, and the first week's Tuesday
\* shows that a week which is not skipped does open positions.
C15_Witness ==
    /\ bt_pc = "tue_c"
    /\ week_count = 2
    /\ week_regime.adx < ADX_SKIP
    /\ has_row(bars["A"]) /\ has_row(bars["B"])
    /\ \A i \in 1..Len(current_positions) : current_positions[i].entry_date < current_date
    /\ \E k \in opened : k[2] < current_date

\* The outcome of closing position p at the latest close the store holds for
\* its symbol up to the end date.
ClosedAtLastClose(p) == create_outcome(p, EndDate, last_close[p.symbol], "forced_close")

RECURSIVE ReturnedAtLastClose(_)
ReturnedAtLastClose(positions) ==
    IF positions = << >> THEN 0
    ELSE Head(positions).capital_allocated + ClosedAtLastClose(Head(positions)).pnl_eur
            + ReturnedAtLastClose(Tail(positions))

\* C17: the step that ends the simulation leaves exactly one outcome in the
\* results for every position opened during the run, and closes each position
\* still open at the latest close of its symbol with reason forced_close,
\* adding its allocated capital and its result to the cash.
C17_AllClosedAtEnd ==
    [][ bt_pc' = "done"
        => /\ \A k \in opened' :
                 Cardinality({ t \in 1..Len(trades') :
                     << trades'[t].symbol, trades'[t].entry_date >> = k }) = 1
           /\ \A i \in 1..Len(current_positions) :
                 ClosedAtLastClose(current_positions[i]) \in NewTrades
           /\ current_capital' = current_capital + ReturnedAtLastClose(current_positions)
      ]_vars

\* The trading days of the run.
TradingDays == { d \in 0..EndDate : IsTradingDay(d) }

MaxHoldFriday(p) == 7 * (p.entry_week + MAX_HOLD_WEEKS - 1) + 4

\* C16: on the Friday on which a position's weeks-held reaches 8 the position
\* is closed: with reason max_hold at that Friday's close (less the exit
\* slippage), unless its stop is hit that day; so it is not open afterwards.
C16_ClosedByMaxHold ==
    [][ (mh_position # NoPosition /\ mh_date = MaxHoldFriday(mh_position))
        => /\ mh_position' = NoPosition
           /\ mh_outcome'.exit_date = mh_date
           /\ \/ mh_outcome'.exit_reason \in {"stop_loss", "trailing_stop"}
              \/ /\ mh_outcome'.exit_reason = "max_hold"
                 /\ mh_outcome' = create_outcome(mh_position, mh_date, mh_bar.close, "max_hold")
      ]_vars

(***************************************************************************)
(* Market store: claims                                                    *)
(***************************************************************************)
InsertedTimestamps(symbol) == { t \in Timestamps : db_latest[<< t, symbol >>] # NoValue }

\* C6: between inserts, get_data(symbol) holds exactly one row for every
\* (timestamp, symbol) key that an insert has stored for that symbol, the
\* row carries the values of the most recent insert of that key, and the
\* rows are in increasing timestamp order; so an overlapping insert neither
\* duplicates a row nor removes one whose key is not in its input.
C6_IdempotentUpsert ==
    db_pc = "idle" =>
        \A symbol \in Symbols :
            LET rows == get_data(symbol)
            IN  /\ \A i, j \in 1..Len(rows) : i < j => rows[i].timestamp < rows[j].timestamp
                /\ \A i \in 1..Len(rows) :
                      /\ rows[i].symbol = symbol
                      /\ rows[i].timestamp \in InsertedTimestamps(symbol)
                      /\ rows[i].close = db_latest[<< rows[i].timestamp, symbol >>]
                /\ \A t \in InsertedTimestamps(symbol) :
                      \E i \in 1..Len(rows) : rows[i].timestamp = t

\* An insert has returned that replaced the values of a stored key while
\* another stored row, whose key was not in the input, is still there.
C6_Witness ==
    /\ db_pc = "idle"
    /\ ~db_raised
    /\ \E i \in 1..Len(db_df) : \E r \in db_before :
          /\ KeyOf(r) = KeyOf(db_df[i])
          /\ r.close # db_df[i].close
          /\ db_df[i] \in market_data
    /\ \E q \in db_before :
          /\ \A i \in 1..Len(db_df) : KeyOf(db_df[i]) # KeyOf(q)
          /\ q \in market_data

\* C7: when insert_data raises, the table is what it was when insert_data was
\* called: nothing deleted, nothing added.
C7_FailedInsertLeavesStore ==
    (db_pc = "idle" /\ db_raised) => market_data = db_before

\* The INSERT statement raised after the DELETE statement had removed a
\* stored row, and the call has returned to the caller with the error.
C7_Witness ==
    /\ db_pc = "idle"
    /\ db_raised
    /\ db_failed_at = "insert"
    /\ \E i \in 1..Len(db_df) : \E r \in db_before : KeyOf(r) = KeyOf(db_df[i])
    /\ db_before # {}

\* C23: get_for_date(symbol, d) returns only the bar stamped on trading day d:
\* at most one row, and no row of a later day when the store has none for d.
C23_OnlyBarOfDay ==
    db_pc = "idle" =>
        \A symbol \in Symbols, d \in Timestamps :
            LET df == get_for_date(symbol, d)
            IN  /\ Len(df) <= 1
                /\ \A i \in 1..Len(df) : df[i].timestamp = d

(***************************************************************************)
(* Drawdown protection: claims                                             *)
(***************************************************************************)
RECURSIVE TrailingRun(_, _)
TrailingRun(recent, is_winner) ==
    IF recent = << >> \/ recent[Len(recent)] # is_winner THEN 0
    ELSE 1 + TrailingRun(SubSeq(recent, 1, Len(recent) - 1), is_winner)

\* Losing trades recorded in a row up to now (counted up to StreakWindow)
TrailingLosses == TrailingRun(dd_recent, FALSE)

\* Winning trades recorded in a row up to now (counted up to StreakWindow)
TrailingWins == TrailingRun(dd_recent, TRUE)

\* C8: once 3 losing trades in a row have been recorded the status reports
\* risk_multiplier 0.5 with max_positions at the configured maximum, also
\* after the 4th; once 5 in a row have been recorded it reports
\* risk_multiplier 0.5 and max_positions 1.  Fewer than 3 leave both normal.
C8_LossStreakTriggers ==
    /\ TrailingLosses >= 5 =>
          /\ ProtectionStatus.risk_multiplier = REDUCED_RISK_PCT
          /\ ProtectionStatus.max_positions = 1
    /\ TrailingLosses \in {3, 4} =>
          /\ ProtectionStatus.risk_multiplier = REDUCED_RISK_PCT
          /\ ProtectionStatus.max_positions = CONFIGURED_MAX_POSITIONS
    /\ (TrailingLosses < 3 /\ Len(dd_recent) > TrailingLosses) =>
          /\ ProtectionStatus.risk_multiplier = NORMAL_RISK_PCT
          /\ ProtectionStatus.max_positions = CONFIGURED_MAX_POSITIONS

\* The 5th losing trade in a row has just been recorded.
C8_Witness ==
    /\ dd_last_op = "record_trade_result"
    /\ TrailingLosses = 5
    /\ dd_consecutive_losses = 5
    /\ ProtectionStatus.max_positions = 1

\* C9: a loss-streak restriction is lifted only by consecutive wins:
\* risk_multiplier goes back to 1.0 only when at least 2 wins in a row have
\* been recorded, max_positions goes back to the configured maximum only
\* when at least 3 wins in a row have been recorded.
C9_LiftedOnlyAfterWins ==
    [][ dd_last_op' # "reset" =>
          /\ (ProtectionStatus.risk_multiplier = REDUCED_RISK_PCT
              /\ ProtectionStatus'.risk_multiplier = NORMAL_RISK_PCT)
                => TrailingWins' >= 2
          /\ (ProtectionStatus.max_positions = 1
              /\ ProtectionStatus'.max_positions = CONFIGURED_MAX_POSITIONS)
                => TrailingWins' >= 3 ]_vars

\* C10: a monthly drawdown of 10 % or more is reported as is_stopped, and
\* is_stopped stays true across every later equity update, recorded trade,
\* month change and restart; only a manual call (reset, or the operator's
\* start_month) may clear it.
C10_StoppedUntilReset ==
    [][ /\ drawdown_at_least(dd_monthly_start_equity, dd_current_equity, MONTHLY_DRAWDOWN_STOP)
           => (ProtectionStatus.is_stopped /\ ~ProtectionStatus.is_trading_allowed)
        /\ (ProtectionStatus.is_stopped /\ dd_last_op' \notin {"reset", "start_month"})
           => ProtectionStatus'.is_stopped ]_vars

(***************************************************************************)
(* Position sizing: claims                                                 *)
(***************************************************************************)
\* C11: every position sized in a plan or opened by the backtest has a value
\* (entry price * quantity, in EUR) of at most 33 % of total equity.
C11_PositionWithinCap ==
    (sz_path \in {"backtest", "plan"} /\ sz_quantity > 0) =>
        ~value_exceeds(sz_entry_price, sz_quantity, sz_total_equity, POSITION_CAP_PCT)

\* C24: every signal of a plan the portfolio manager returns has a
\* position_size of at least 1; a signal that cannot be sized to one share
\* within the caps and the available capital is not in the plan.
C24_PlanSizesPositive ==
    \A i \in 1..Len(stock_signals) : stock_signals[i].position_size >= 1

(***************************************************************************)
(* Sector diversity filter: claims                                         *)
(***************************************************************************)
\* The plan after the first n accepted signals: the open trades and those signals
PlanPositions(n) == sd_open \o SubSeq(sd_accepted, 1, n)

SectorWithinLimit(positions, sector) ==
    sector_value(positions, sector) * 100
        <= MAX_SECTOR_CONCENTRATION_PCT * total_value(positions)

\* C12: in the plan the filter returns, every sector that received a signal
\* holds at most 40 % of the plan's capital (accepted signals together with
\* open positions), and no signal was accepted that pushed its sector above
\* 40 % at the moment it was accepted, with or without open positions.
C12_SectorWithinLimit ==
    sd_pc = "done" =>
        \A i \in 1..Len(sd_accepted) :
            /\ SectorWithinLimit(PlanPositions(i), get_sector(sd_accepted[i].symbol))
            /\ SectorWithinLimit(PlanPositions(Len(sd_accepted)),
                                 get_sector(sd_accepted[i].symbol))

(***************************************************************************)
(* Ingestion cycle: claims                                                 *)
(***************************************************************************)
\* DELAYS: the back-off delays of a fetch that used every attempt.
BackoffDelays == [k \in 1..MAX_RETRIES |-> BACKOFF_BASE ^ k]

\* C19: a fetch whose last request failed with a vendor error (HTTP error
\* status, timeout, network exception) has been retried with back-off: it made
\* MAX_RETRIES attempts separated by sleeps of 2, 4, 8 and 16 s, and its symbol
\* is then reported as not updated.
C19_VendorErrorRetried ==
    \A n \in Watchlist :
        (up_task[n].step \in {"fetched", "returned"} /\ up_task[n].last \in VendorErrors)
        => /\ up_task[n].attempt = MAX_RETRIES
           /\ up_task[n].slept = BackoffDelays
           /\ up_task[n].step = "returned" => up_task[n].result = "False"

\* The symbols whose update has returned True / False.
Updated == { n \in Watchlist : up_task[n].result = "True" }

Failed == { n \in Watchlist : up_task[n].result = "False" }

\* C20: success_count never counts a symbol whose update failed; a symbol that
\* failed does not keep the others from being processed: once its batch is
\* counted the cycle goes on with the next batch, and when the cycle has ended
\* every symbol of the watchlist has returned and success_count is the number
\* of symbols that returned True.
C20_FailureDoesNotStopCycle ==
    /\ up_success_count <= Cardinality(Updated)
    /\ up_pc = "batch" => up_next <= NumSymbols
    /\ \A n \in Watchlist : n < up_next => up_task[n].step = "returned"
    /\ up_pc = "done" =>
          /\ \A n \in Watchlist : up_task[n].step = "returned"
          /\ up_success_count = Cardinality(Updated)

\* C20 witness: a cycle of the concurrent plan has ended in which the first
\* symbol failed, its batch mate was updated, and so was the symbol of the
\* later batch.
C20_Witness ==
    /\ up_pc = "done"
    /\ up_plan = "starter"
    /\ 1 \in Failed
    /\ 2 \in Updated
    /\ NumSymbols \in Updated
    /\ up_success_count = NumSymbols - 1

(***************************************************************************)
(* Market store connections: claims                                        *)
(***************************************************************************)
\* C21: the market store is a singleton per file path within one process: two
\* components that hold a live store object for the same file hold the same
\* object, so the process has at most one connection to a file.
C21_SingletonPerPath ==
    \A c, k \in Components :
        (st_db[c] # NoDb /\ st_db[k] # NoDb /\ st_db[c].path = st_db[k].path)
            => st_db[c].instance = st_db[k].instance

\* C22: an access to the store made while another process holds the file tries
\* 3 times, 1 s apart, and then returns an empty result; it does not raise.
C22_LockedStoreRetried ==
    /\ (st_construct.held => ~st_construct.raised)
    /\ (st_mon.pc = "done" /\ st_mon.met_lock)
          => /\ st_mon.attempt + 1 = 3
             /\ st_mon.slept = << 1, 1 >>
             /\ st_mon.result = "empty"

C28_StoredStopNeverLowered ==
    [][ (mon_trade.status = "open" /\ mon_trade'.status = "open")
            => mon_trade'.stop_loss >= mon_trade.stop_loss ]_vars

(***************************************************************************)
(* Exchange rate: claims                                                   *)
(***************************************************************************)
\* C27: when the fetch of the exchange rate fails, get_exchange_rate returns
\* a cached rate whenever one is stored, in memory or in the user store and
\* of whatever age, and returns the hardcoded 0.92 only when no cached rate
\* exists at all.
C27_FailedFetchUsesCache ==
    fx_call.fetch_failed =>
        /\ fx_call.cached # {} => fx_call.returned \in fx_call.cached
        /\ fx_call.returned = hardcoded_rate => fx_call.cached = {}

(***************************************************************************)
(* Backtest with aborted days: claims                                      *)
(***************************************************************************)
TradingDaysBefore(d) == Cardinality({ x \in 0..(d - 1) : IsTradingDay(x) })

\* C29: signals generated on a Monday can be entered only on the Tuesday that
\* follows it, also when a day's processing was aborted by an error.  A
\* pending list that is not empty after a step was either stored by that step
\* on a Monday, with Tuesday the day that follows, or was already there earlier
\* the same day: it never outlives a Tuesday.  A step that opens positions is a
\* Tuesday's, opens them with that date for symbols of the pending list, and
\* leaves the list empty.
C29_EnteredOnlyOnFollowingTuesday ==
    [][ /\ pending_signals' # << >> =>
            \/ weekday(current_date) = 0 /\ current_date' = current_date + 1
            \/ pending_signals' = pending_signals /\ current_date' = current_date
        /\ opened' # opened =>
            /\ weekday(current_date) = 1
            /\ pending_signals' = << >>
            /\ \A o \in opened' \ opened :
                  /\ o[2] = current_date
                  /\ \E i \in 1..Len(pending_signals) : pending_signals[i].symbol = o[1]
      ]_vars

\* C29 witness: the Tuesday of the second week after its entry step, the
\* Monday before it aborted (one equity snapshot is missing), a slot is free,
\* and the only entries of the run are those of the first week's Tuesday.
C29_Witness ==
    /\ bt_pc = "tue_c" /\ week_count = 2
    /\ equity_curve = TradingDaysBefore(current_date) - 1
    /\ Len(current_positions) < effective_max_slots
    /\ opened # {}
    /\ \A o \in opened : o[2] < current_date

\* A pending signal is enterable at the start of Tuesday's entry step: its
\* symbol is not held, the store has its bar of that Tuesday, the risk per
\* share is positive and the cash covers the position.
Enterable(sig) ==
    LET st == [positions |-> current_positions, capital |-> current_capital]
    IN  has_row(bars[sig.symbol]) /\ enter_signal(sig, st) # st

\* C30: on a Tuesday with k available slots and at least k enterable pending
\* signals, the entry step opens exactly k positions: a skipped signal of
\* higher rank does not use up a slot.
C30_SkippedSignalKeepsSlotFree ==
    [][ (bt_pc = "tue_b" /\ bt_pc' = "tue_c") =>
            LET k == available_slots(Len(current_positions))
                enterable == { i \in 1..Len(pending_signals) : Enterable(pending_signals[i]) }
            IN  Cardinality(enterable) >= k =>
                    Len(current_positions') = Len(current_positions) + k
      ]_vars

====
